---------------------------- MODULE Spec2Model ----------------------------
(***************************************************************************)
(* A model of pakdump (573dev/pakdump): the MDB cipher and song codec of   *)
(* src/pakdump/mdbe.py and the index parser, filename hashing and          *)
(* extraction pipeline of src/pakdump/dumper.py.                           *)
(*                                                                         *)
(* Bytes are integers 0..255 and byte buffers are sequences of them.       *)
(* Text is a sequence of ASCII codes.  A 32-bit unsigned word is a pair    *)
(* <<hi, lo>> of 16-bit halves, because the checker's integers are 32-bit  *)
(* signed and cannot hold 0xFFFFFFFF.                                      *)
(*                                                                         *)
(* The module holds five state machines over one set of variables; each    *)
(* specification runs one of them and leaves the others idle.              *)
(***************************************************************************)
EXTENDS Integers, Sequences, FiniteSets, TLC

VARIABLES
    \* MDB cipher (mdbe.py, MDB.apply_encryption_key)
    cipherInput, cipherBuffer, cipherOps,
    \* MDB song codec (mdbe.py, MDBSong)
    song, songPc, songBytes, songDecoded,
    \* index parser (dumper.py, PakDumper.parse_pack_data)
    idxRecords, idxFile, idxEnd, idxPos, idxEntries, idxPc,
    \* filename hashing (dumper.py, PakDumper.calculate_filename_crc32)
    crcPath, crcResults, crcNorm,
    \* MDB container (mdbe.py, MDB)
    mdbJson, mdbForce, mdbFile, mdbImp, mdbFwd, mdbReads,
    \* MDB header and course codecs (mdbe.py, MDBHeader, MDBCourse)
    recIn, recPc, recBytes, recDecoded,
    \* MDB export (mdbe.py, MDB.export)
    expMdb, expFs, expLog,
    \* command line of pakdump (pakdump_base.py, main)
    mainArgs, mainPc,
    \* extraction pipeline (dumper.py, PakDumper)
    entries, packlist, disk, outfs, outdirs, force, resolved, dumpPc, dumpRuns,
    sortedKeys, dumpIdx, extracted, events

cipherVars == <<cipherInput, cipherBuffer, cipherOps>>
songVars == <<song, songPc, songBytes, songDecoded>>
idxVars == <<idxRecords, idxFile, idxEnd, idxPos, idxEntries, idxPc>>
crcVars == <<crcPath, crcResults, crcNorm>>
dumpVars == <<entries, packlist, disk, outfs, outdirs, force, resolved, dumpPc,
              dumpRuns, sortedKeys, dumpIdx, extracted, events>>
mdbVars == <<mdbJson, mdbForce, mdbFile, mdbImp, mdbFwd, mdbReads>>
mainVars == <<mainArgs, mainPc>>
recVars == <<recIn, recPc, recBytes, recDecoded>>
expVars == <<expMdb, expFs, expLog>>
vars == <<cipherVars, songVars, idxVars, crcVars, dumpVars, mdbVars, mainVars, recVars,
          expVars>>

\* Python's None, as a value no byte buffer and no text equals.
None == <<-1>>

\* The marker of a raised exception (ValueError) in place of a buffer.
Raised == <<-2>>

(***************************************************************************)
(* Integer helpers: Python's ^ on integers of either sign.                 *)
(***************************************************************************)
\* a ^ b of non-negative operands, by halving the width: 1, 2, 4, 8, 16 and
\* 32 bits (every operand of the model is below 2^31).
Xor1(a, b) == (a + b) % 2

Xor2(a, b) == Xor1(a % 2, b % 2) + 2 * Xor1(a \div 2, b \div 2)

Xor4(a, b) == Xor2(a % 4, b % 4) + 4 * Xor2(a \div 4, b \div 4)

Xor8(a, b) == Xor4(a % 16, b % 16) + 16 * Xor4(a \div 16, b \div 16)

Xor16(a, b) == Xor8(a % 256, b % 256) + 256 * Xor8(a \div 256, b \div 256)

XorNat(a, b) == Xor16(a % 65536, b % 65536) + 65536 * Xor16(a \div 65536, b \div 65536)

\* x ^ y with Python's two's-complement reading of negative operands.
PyXor(a, b) ==
    IF a >= 0 /\ b >= 0 THEN XorNat(a, b)
    ELSE IF a < 0 /\ b < 0 THEN XorNat(-a - 1, -b - 1)
    ELSE IF a < 0 THEN -XorNat(-a - 1, b) - 1
    ELSE -XorNat(a, -b - 1) - 1

IsByte(x) == x \in 0..255

\* In the loops below, "CHOOSE r \in {Loop(v) : v \in {step}} : TRUE" is
\* Loop(step) with step evaluated once, before the next pass uses it: a loop
\* variable holds a value, not the expression that made it.

\* All sequences over S of length at most n.
SeqsUpTo(S, n) == UNION {[1..k -> S] : k \in 0..n}

(***************************************************************************)
(* MDB cipher: MDB.apply_encryption_key.                                   *)
(***************************************************************************)
\* ENCRYPTION_KEY = [0x32, 0x2B, 0x2E, 0x35, 0x38, 0x3E, 0x3B, 0x2E, 0x41]
ENCRYPTION_KEY == <<50, 43, 46, 53, 56, 62, 59, 46, 65>>

\* A mutant of CipherMask: the two 9 * (idx // 9) terms are left out, so the
\* value is no longer reduced to the position within the key.
CipherMaskUnreduced(idx) ==
    idx
    + 16 * (idx % 8)
    + PyXor(ENCRYPTION_KEY[(idx % 9) + 1], 127 - idx)

\* The value the code XORs into the byte at step idx (not masked to a byte).
CipherMask(idx) ==
    idx
    + 16 * (idx % 8)
    + PyXor(ENCRYPTION_KEY[(idx % 9) + 1], 9 * (idx \div 9) - idx + 127)
    - 9 * (idx \div 9)

\* A mutant of CipherInIdx: the encrypt direction reads mirrored as decrypt does.
CipherInIdxAlwaysMirrored(bufflen, idx, decrypt) == bufflen - 1 - idx

\* in_idx = bufflen - 1 - idx if decrypt else idx
CipherInIdx(bufflen, idx, decrypt) == IF decrypt THEN bufflen - 1 - idx ELSE idx

\* A mutant of CipherOutIdx: the encrypt direction writes at idx.
CipherOutIdxUnmirrored(bufflen, idx, decrypt) == idx

\* out_idx = idx if decrypt else bufflen - 1 - idx
CipherOutIdx(bufflen, idx, decrypt) == IF decrypt THEN idx ELSE bufflen - 1 - idx

\* byte = buffer[in_idx] ^ (...), the value step idx stores.
CipherByte(buffer, decrypt, idx) ==
    PyXor(buffer[CipherInIdx(Len(buffer), idx, decrypt) + 1], CipherMask(idx))

\* The largest element of a non-empty set of integers.
MaxOf(S) == CHOOSE x \in S : \A y \in S : y <= x

\* The for loop over idx = 0..bufflen-1: output_buffer starts zeroed, step idx
\* stores its byte at out_idx, so a position ends with the byte of the last
\* step that stored there; storing a value outside 0..255 in a bytearray
\* raises ValueError.
CipherLoop(buffer, decrypt) ==
    LET bufflen == Len(buffer)
        steps == 0..(bufflen - 1)
        writers(pos) == {idx \in steps : CipherOutIdx(bufflen, idx, decrypt) = pos}
    IN  IF \E idx \in steps : ~IsByte(CipherByte(buffer, decrypt, idx))
        THEN Raised
        ELSE [p \in 1..bufflen |->
                IF writers(p - 1) = {} THEN 0
                ELSE CipherByte(buffer, decrypt, MaxOf(writers(p - 1)))]

apply_encryption_key(buffer, decrypt) ==
    IF buffer = None THEN <<>> ELSE CipherLoop(buffer, decrypt)

\* Bounds of the cipher's inputs.
MaxCipherLen == 3
MaxCipherOps == 2

CipherBytes == {0, 90, 255}
CipherPatternLens == {9, 72, 100}
CipherSeeds == {0, 201}
CipherStrides == {1, 37}

\* Every short buffer over CipherBytes, and longer buffers of varied content.
CipherInputs ==
    SeqsUpTo(CipherBytes, MaxCipherLen)
    \cup {[i \in 1..n |-> (s + t * i) % 256] :
            n \in CipherPatternLens, s \in CipherSeeds, t \in CipherStrides}
    \cup {None}

CipherIdle ==
    /\ cipherInput = <<>>
    /\ cipherBuffer = <<>>
    /\ cipherOps = <<>>

CipherInit ==
    /\ cipherInput \in CipherInputs
    /\ cipherBuffer = cipherInput
    /\ cipherOps = <<>>

\* One call of apply_encryption_key on the current buffer.
CipherApply(decrypt) ==
    /\ Len(cipherOps) < MaxCipherOps
    /\ cipherBuffer # Raised
    /\ cipherBuffer' = apply_encryption_key(cipherBuffer, decrypt)
    /\ cipherOps' = Append(cipherOps, IF decrypt THEN "dec" ELSE "enc")
    /\ UNCHANGED cipherInput

CipherEncrypt == CipherApply(FALSE) /\ UNCHANGED <<songVars, idxVars, crcVars, dumpVars, mdbVars, mainVars, recVars, expVars>>

CipherDecrypt == CipherApply(TRUE) /\ UNCHANGED <<songVars, idxVars, crcVars, dumpVars, mdbVars, mainVars, recVars, expVars>>

CipherNext == CipherEncrypt \/ CipherDecrypt

(***************************************************************************)
(* Python's struct module: pack_into and unpack_from of a little-endian    *)
(* format without padding ("<").  A format is the sequence of its slots'   *)
(* codes: "i" (int32), "I" (uint32, below 2^31 here), "W" (uint32 held as   *)
(* the pair <<hi, lo>> of its 16-bit halves), "H" (uint16), "h" (int16),   *)
(* "B" (uint8), "b" (int8).                                                *)
(***************************************************************************)
Rep(code, n) == [j \in 1..n |-> code]

StructSlotSize(code) ==
    CASE code = "i" -> 4
      [] code = "I" -> 4
      [] code = "W" -> 4
      [] code = "H" -> 2
      [] code = "h" -> 2
      [] OTHER -> 1

\* Whether struct accepts the value for the slot (else struct.error).
StructInRange(code, v) ==
    CASE code = "i" -> v \in -2147483647 - 1 .. 2147483647
      [] code = "I" -> v \in 0..2147483647
      [] code = "W" -> v \in (0..65535) \X (0..65535)
      [] code = "H" -> v \in 0..65535
      [] code = "h" -> v \in -32768..32767
      [] code = "B" -> v \in 0..255
      [] OTHER -> v \in -128..127

\* The byte offset of every slot, the slot holding every byte, the total size.
StructLayout(fmt) ==
    LET wide(j, c) == Cardinality({k \in 1..(j - 1) : fmt[k] = c})
        off == [j \in 1..(Len(fmt) + 1) |->
                   (j - 1) + wide(j, "H") + wide(j, "h")
                   + 3 * (wide(j, "i") + wide(j, "I") + wide(j, "W"))]
        size == off[Len(fmt) + 1]
    IN  [fmt |-> fmt,
         off |-> off,
         size |-> size,
         slot |-> [p \in 1..size |->
                     CHOOSE j \in 1..Len(fmt) : off[j] < p /\ p <= off[j + 1]]]

Pow256(b) == CASE b = 0 -> 1 [] b = 1 -> 256 [] b = 2 -> 65536 [] OTHER -> 16777216

\* Byte b (0 = lowest) of v in two's complement.
LeByte(v, b) == (v \div Pow256(b)) % 256

\* Byte b (0 = lowest) of the slot's value.
StructByte(code, v, b) ==
    IF code = "W" THEN LeByte(IF b < 2 THEN v[2] ELSE v[1], b % 2) ELSE LeByte(v, b)

\* struct.pack_into(fmt, buffer, 0, *args): Raised when the number of values
\* is not the number of slots, a value is out of its slot's range or the
\* buffer is too small; else the buffer with its first bytes overwritten.
struct_pack_into(layout, buffer, args) ==
    IF \/ Len(args) # Len(layout.fmt)
       \/ \E j \in 1..Len(args) : ~StructInRange(layout.fmt[j], args[j])
       \/ Len(buffer) < layout.size
    THEN Raised
    ELSE [p \in 1..Len(buffer) |->
            IF p > layout.size THEN buffer[p]
            ELSE LET j == layout.slot[p]
                 IN  StructByte(layout.fmt[j], args[j], p - layout.off[j] - 1)]

\* The value of the slot at byte offset o.
StructValue(code, data, o) ==
    CASE code = "i" ->
            data[o + 1] + 256 * data[o + 2] + 65536 * data[o + 3]
            + 16777216 * (IF data[o + 4] >= 128 THEN data[o + 4] - 256 ELSE data[o + 4])
      [] code = "I" ->
            data[o + 1] + 256 * data[o + 2] + 65536 * data[o + 3] + 16777216 * data[o + 4]
      [] code = "W" ->
            <<data[o + 3] + 256 * data[o + 4], data[o + 1] + 256 * data[o + 2]>>
      [] code = "H" -> data[o + 1] + 256 * data[o + 2]
      [] code = "h" ->
            data[o + 1] + 256 * (IF data[o + 2] >= 128 THEN data[o + 2] - 256 ELSE data[o + 2])
      [] code = "B" -> data[o + 1]
      [] OTHER -> IF data[o + 1] >= 128 THEN data[o + 1] - 256 ELSE data[o + 1]

\* struct.unpack_from(fmt, data): the tuple of the slots' values.
struct_unpack_from(layout, data) ==
    [j \in 1..Len(layout.fmt) |-> StructValue(layout.fmt[j], data, layout.off[j])]

(***************************************************************************)
(* MDB song codec: MDBSong.to_bytearray and MDBSong.from_byte_data.        *)
(***************************************************************************)
SongFormat ==
    <<"i">>                 \* music_id
    \o Rep("B", 16)         \* diff_list
    \o <<"B">>              \* seq_flag
    \o <<"B">>              \* pad_diff
    \o Rep("B", 2)          \* contain_stat
    \o Rep("B", 2)          \* first_ver
    \o <<"B">>              \* b_long
    \o <<"B">>              \* b_eemail
    \o <<"H">>              \* bpm
    \o <<"H">>              \* bpm2
    \o Rep("B", 16)         \* title_ascii
    \o <<"H">>              \* order_ascii
    \o <<"H">>              \* order_kana
    \o <<"B">>              \* category_kana
    \o Rep("B", 2)          \* secret
    \o <<"B">>              \* be_session
    \o <<"B">>              \* speed
    \o <<"B">>              \* life
    \o <<"b">>              \* gf_offset
    \o <<"b">>              \* dm_offset
    \o Rep("B", 128)        \* chart_list
    \o <<"B">>              \* origin
    \o <<"B">>              \* music_type
    \o <<"B">>              \* genre
    \o <<"B">>              \* is_remaster

SongLayout == StructLayout(SongFormat)

\* DATA_SIZE = 0xC0
SONG_DATA_SIZE == 192

\* The number of chart-list slots ("128B").
CHART_LIST_LEN == 128

\* zero_fill = [0 for x in range(0, title_diff)], title_diff = 15 - len(title)
SongZeroFill(title) ==
    LET title_diff == 15 - Len(title)
    IN  [x \in 1..(IF title_diff > 0 THEN title_diff ELSE 0) |-> 0]

\* The values to_bytearray hands to struct.pack_into, in its order.
SongPackArgs(s) ==
    <<s.music_id>>
    \o s.difficulty
    \o <<s.pad_diff, s.seq_flag>>
    \o s.contain_stat
    \o <<IF s.b_long THEN 1 ELSE 0, IF s.b_eemall THEN 1 ELSE 0>>
    \o <<s.bpm, s.bpm2>>
    \o (s.title_ascii \o SongZeroFill(s.title_ascii))
    \o <<s.order_ascii, s.order_kana, s.category_kana>>
    \o s.secret
    \o <<s.b_session, s.speed, s.life, s.gf_offset, s.dm_offset>>
    \o s.chart_list
    \o <<s.origin, s.music_type, s.genre, s.is_remaster>>

\* MDBSong.to_bytearray: the packed buffer, or Raised (struct.error).
SongToByteArray(s) ==
    struct_pack_into(SongLayout, [p \in 1..SONG_DATA_SIZE |-> 0], SongPackArgs(s))

\* data[lo:hi] of a 0-based tuple.
Slice(data, lo, hi) == SubSeq(data, lo + 1, hi)

\* bytes(title).decode("UTF-8") of bytes that are ASCII; a byte of 128 or more
\* is outside the ASCII titles the format holds and is taken to raise.
IsAsciiText(bs) == \A k \in 1..Len(bs) : bs[k] < 128

\* MDBSong.from_byte_data on the unpacked tuple.
SongFromByteData(data) ==
    [music_id |-> data[1],
     difficulty |-> Slice(data, 1, 17),
     pad_diff |-> data[19],
     seq_flag |-> data[18],
     contain_stat |-> Slice(data, 19, 21),
     first_ver |-> Slice(data, 21, 23),
     b_long |-> (data[24] = 1),
     b_eemall |-> (data[25] = 1),
     bpm |-> data[26],
     bpm2 |-> data[27],
     title_ascii |-> SelectSeq(Slice(data, 27, 43), LAMBDA a : a # 0),
     order_ascii |-> data[44],
     order_kana |-> data[45],
     category_kana |-> data[46],
     secret |-> Slice(data, 46, 48),
     b_session |-> data[49],
     speed |-> data[50],
     life |-> data[51],
     gf_offset |-> data[52],
     dm_offset |-> data[53],
     chart_list |-> Slice(data, 53, 181),
     origin |-> data[182],
     music_type |-> data[183],
     genre |-> data[184],
     is_remaster |-> data[185]]

\* Bound of the song titles' lengths.
MaxTitleLen == 18

SongTitles == {[k \in 1..n |-> 64 + k] : n \in 0..MaxTitleLen}

\* Song records with every field in its slot's range.
SongInputs ==
    {[music_id |-> id,
      difficulty |-> [k \in 1..16 |-> 10 * k],
      pad_diff |-> flags[1],
      seq_flag |-> flags[2],
      contain_stat |-> <<1, 2>>,
      first_ver |-> ver,
      b_long |-> long,
      b_eemall |-> FALSE,
      bpm |-> bpm,
      bpm2 |-> bpm + 10,
      title_ascii |-> title,
      order_ascii |-> 513,
      order_kana |-> 65535,
      category_kana |-> 7,
      secret |-> <<0, 1>>,
      b_session |-> 1,
      speed |-> 2,
      life |-> 3,
      gf_offset |-> gf,
      dm_offset |-> -2,
      chart_list |-> [k \in 1..CHART_LIST_LEN |-> chart],
      origin |-> 8,
      music_type |-> 9,
      genre |-> 10,
      is_remaster |-> 1] :
        id \in {-1, 5}, flags \in {<<0, 0>>, <<1, 2>>}, ver \in {<<0, 0>>, <<3, 4>>},
        long \in BOOLEAN, bpm \in {120, 300}, title \in SongTitles,
        gf \in {-128, 127}, chart \in {0, 255}}

SongInit ==
    /\ song \in SongInputs
    /\ songPc = "new"
    /\ songBytes = <<>>
    /\ songDecoded = <<>>

\* to_bytearray of the song.
SongEncode ==
    /\ songPc = "new"
    /\ LET buffer == SongToByteArray(song)
       IN  IF buffer = Raised
           THEN songPc' = "error" /\ songBytes' = <<>>
           ELSE songPc' = "encoded" /\ songBytes' = buffer
    /\ UNCHANGED <<song, songDecoded>>
    /\ UNCHANGED <<cipherVars, idxVars, crcVars, dumpVars, mdbVars, mainVars, recVars, expVars>>

\* struct.unpack_from(STRUCT_FORMAT, bytes), then from_byte_data.
SongDecode ==
    /\ songPc = "encoded"
    /\ LET data == struct_unpack_from(SongLayout, songBytes)
       IN  IF IsAsciiText(Slice(data, 27, 43))
           THEN songPc' = "decoded" /\ songDecoded' = SongFromByteData(data)
           ELSE songPc' = "error" /\ songDecoded' = <<>>
    /\ UNCHANGED <<song, songBytes>>
    /\ UNCHANGED <<cipherVars, idxVars, crcVars, dumpVars, mdbVars, mainVars, recVars, expVars>>

SongNext == SongEncode \/ SongDecode

(***************************************************************************)
(* Index parser: PackInfo and PakDumper.parse_pack_data.                   *)
(***************************************************************************)
\* bytes.hex(): two hexadecimal digits (as values 0..15) per byte.
Hex(bs) ==
    [k \in 1..(2 * Len(bs)) |->
        IF k % 2 = 1 THEN bs[(k + 1) \div 2] \div 16 ELSE bs[k \div 2] % 16]

\* PackInfo.__init__
PackInfo(crc32, crc16, packid, offset, filesize, md5sum) ==
    [crc32 |-> crc32, crc16 |-> crc16, packid |-> packid, offset |-> offset,
     filesize |-> filesize, md5sum |-> Hex(md5sum), filename |-> None]

\* struct.unpack("<IHHII", data): crc32, crc16, packid, offset, filesize
IndexFormat == <<"W", "H", "H", "I", "I">>

IndexLayout == StructLayout(IndexFormat)

\* f.read(n) at position pos: the bytes there, fewer at the end of the file.
FileRead(file, pos, n) ==
    SubSeq(file, pos + 1, IF pos + n < Len(file) THEN pos + n ELSE Len(file))

\* int.from_bytes(bs, "little") of at most 4 bytes.
IntFromBytesLittle(bs) ==
    (IF Len(bs) >= 1 THEN bs[1] ELSE 0)
    + (IF Len(bs) >= 2 THEN 256 * bs[2] ELSE 0)
    + (IF Len(bs) >= 3 THEN 65536 * bs[3] ELSE 0)
    + (IF Len(bs) >= 4 THEN 16777216 * bs[4] ELSE 0)

\* m with key k set to v (entries[k] = v).
MapSet(m, k, v) == [x \in DOMAIN m \cup {k} |-> IF x = k THEN v ELSE m[x]]

\* A mutant of IdxFoundAlready: any record with a known crc32 is a duplicate.
IdxFoundAlreadyByCrc32(es, crc32, crc16) == crc32 \in DOMAIN es

\* crc32 in entries and entries[crc32].crc16 == crc16
IdxFoundAlready(es, crc32, crc16) == crc32 \in DOMAIN es /\ es[crc32].crc16 = crc16

\* A mutant of IdxStore: every record read is stored under its crc32.
IdxStoreLastWins(es, crc32, crc16, entry) == MapSet(es, crc32, entry)

\* The end of a pass of the loop: "continue" when the key is found already,
\* else entries[crc32] = entry.
IdxStore(es, crc32, crc16, entry) ==
    IF IdxFoundAlready(es, crc32, crc16) THEN es ELSE MapSet(es, crc32, entry)

\* Bound of the number of complete records in an index file.
MaxIdxRecords == 3

\* Lengths of the partial record after the last complete one.
IdxTailLens == {0, 1, 15, 16, 17, 31}

IdxCrc32s == {<<0, 7>>, <<40000, 8>>}
IdxCrc16s == {1, 2}

\* The k-th record of a crafted index: its place tells it from the others.
IdxRecord(k, crc32, crc16) ==
    [crc32 |-> crc32, crc16 |-> crc16, packid |-> k, offset |-> 1000 * k,
     filesize |-> 70000 + k, md5sum |-> [j \in 1..16 |-> 16 * k + j]]

\* The 32 bytes of a record: the digest, then the packed fields.
IdxRecordBytes(r) ==
    r.md5sum
    \o struct_pack_into(IndexLayout, [p \in 1..16 |-> 0],
                        <<r.crc32, r.crc16, r.packid, r.offset, r.filesize>>)

\* The 16-byte header: the end address is the little-endian word at 0x08.
IdxHeaderBytes(end) ==
    [p \in 1..8 |-> 0] \o [b \in 1..4 |-> LeByte(end, b - 1)] \o [p \in 1..4 |-> 0]

IdxBodyBytes(recs) ==
    [p \in 1..(32 * Len(recs)) |-> IdxRecordBytes(recs[((p - 1) \div 32) + 1])[((p - 1) % 32) + 1]]

\* The declared end addresses tried for a file of n records and the given
\* length: none, one byte into the last record, exact, beyond the file.
IdxEndChoices(n, length) ==
    {0, 16 + 32 * n, length + 64} \cup (IF n > 0 THEN {16 + 32 * (n - 1) + 1} ELSE {})

IdxInit ==
    /\ \E n \in 0..MaxIdxRecords :
         \E keys \in [1..n -> IdxCrc32s \X IdxCrc16s] :
           idxRecords = [k \in 1..n |-> IdxRecord(k, keys[k][1], keys[k][2])]
    /\ \E tail \in IdxTailLens :
         \E end \in IdxEndChoices(Len(idxRecords), 16 + 32 * Len(idxRecords) + tail) :
           idxFile = IdxHeaderBytes(end) \o IdxBodyBytes(idxRecords)
                     \o [p \in 1..tail |-> 200 + p]
    /\ idxEnd = 0
    /\ idxPos = 0
    /\ idxEntries = <<>>
    /\ idxPc = "open"

\* f.seek(0x08); end_address = int.from_bytes(f.read(0x04), "little"); f.seek(0x10)
IdxOpen ==
    /\ idxPc = "open"
    /\ idxEnd' = IntFromBytesLittle(FileRead(idxFile, 8, 4))
    /\ idxPos' = 16
    /\ idxPc' = "loop"
    /\ UNCHANGED <<idxRecords, idxFile, idxEntries>>
    /\ UNCHANGED <<cipherVars, songVars, crcVars, dumpVars, mdbVars, mainVars, recVars, expVars>>

\* One pass of the while loop's body.
IdxIterate ==
    /\ idxPc = "loop"
    /\ idxPos < idxEnd
    /\ LET md5sum == FileRead(idxFile, idxPos, 16)
           data == FileRead(idxFile, idxPos + Len(md5sum), 16)
       IN  /\ idxPos' = idxPos + Len(md5sum) + Len(data)
           /\ IF md5sum = <<>> \/ data = <<>>
              THEN idxPc' = "done" /\ UNCHANGED idxEntries
              ELSE IF Len(data) # IndexLayout.size
              THEN idxPc' = "error" /\ UNCHANGED idxEntries
              ELSE LET t == struct_unpack_from(IndexLayout, data)
                       entry == PackInfo(t[1], t[2], t[3], t[4], t[5], md5sum)
                   IN  /\ idxPc' = "loop"
                       /\ idxEntries' = IdxStore(idxEntries, t[1], t[2], entry)
    /\ UNCHANGED <<idxRecords, idxFile, idxEnd>>
    /\ UNCHANGED <<cipherVars, songVars, crcVars, dumpVars, mdbVars, mainVars, recVars, expVars>>

\* The loop's test fails: return entries.
IdxReturn ==
    /\ idxPc = "loop"
    /\ idxPos >= idxEnd
    /\ idxPc' = "done"
    /\ UNCHANGED <<idxRecords, idxFile, idxEnd, idxPos, idxEntries>>
    /\ UNCHANGED <<cipherVars, songVars, crcVars, dumpVars, mdbVars, mainVars, recVars, expVars>>

IdxNext == IdxOpen \/ IdxIterate \/ IdxReturn

(***************************************************************************)
(* Filename hashing: generate_crc32_table, calculate_filename_crc32 and    *)
(* calculate_filename_crc16.  A 32-bit value is the pair <<hi, lo>>.       *)
(***************************************************************************)
W32Xor(a, b) == <<XorNat(a[1], b[1]), XorNat(a[2], b[2])>>

\* a >> 1
W32Shr1(a) == <<a[1] \div 2, (a[2] \div 2) + 32768 * (a[1] % 2)>>

\* a >> 8
W32Shr8(a) == <<a[1] \div 256, (a[2] \div 256) + 256 * (a[1] % 256)>>

\* ~a & 0xFFFFFFFF
W32Not(a) == <<65535 - a[1], 65535 - a[2]>>

\* crc32_constant = 0xEDB88320
CRC32_CONSTANT == <<60856, 33568>>

\* One round of the table's inner loop.
Crc32TableRound(crc) ==
    IF crc[2] % 2 = 1 THEN W32Xor(W32Shr1(crc), CRC32_CONSTANT) ELSE W32Shr1(crc)

\* for j in range(0, 8): the rounds from round j on.
RECURSIVE Crc32TableRounds(_, _)
Crc32TableRounds(crc, j) ==
    IF j >= 8 THEN crc
    ELSE CHOOSE r \in {Crc32TableRounds(v, j + 1) : v \in {Crc32TableRound(crc)}} : TRUE

\* generate_crc32_table: eight rounds for every i in range(0, 256).
CRC32_TABLE == [i \in 0..255 |-> Crc32TableRounds(<<0, i>>, 0)]

\* str.startswith
StartsWith(text, prefix) ==
    Len(text) >= Len(prefix) /\ SubSeq(text, 1, Len(prefix)) = prefix

\* str.lower() of ASCII text
Lower(text) ==
    [k \in 1..Len(text) |-> IF text[k] \in 65..90 THEN text[k] + 32 ELSE text[k]]

\* "data/"
TextData == <<100, 97, 116, 97, 47>>

\* "/data/aep"
TextDataAep == <<47, 100, 97, 116, 97, 47, 97, 101, 112>>

\* "/"
TextSlash == <<47>>

\* A mutant of WithLeadingSlash: the test inverted and made on "/data/".
WithLeadingSlashUnlessRooted(filestr) ==
    IF StartsWith(filestr, TextSlash \o TextData) THEN filestr ELSE TextSlash \o filestr

\* filestr = "/" + filestr if filestr.startswith("data/") else filestr
WithLeadingSlash(filestr) ==
    IF StartsWith(filestr, TextData) THEN TextSlash \o filestr ELSE filestr

\* filestr = filestr.lower() if filestr.startswith("/data/aep") else filestr
WithAepLowered(filestr) ==
    IF StartsWith(filestr, TextDataAep) THEN Lower(filestr) ELSE filestr

\* The normalisation calculate_filename_crc32 applies before hashing.
NormalizeFilename(filestr) == WithAepLowered(WithLeadingSlash(filestr))

\* The loop over filebytes[i .. ] from crc32_sum.
\* crc32_table[(crc32_sum & 0xFF) ^ filebytes[i]] ^ ((crc32_sum >> 8) & 0xFFFFFFFF)
Crc32Step(crc32_sum, byte) ==
    W32Xor(CRC32_TABLE[XorNat(crc32_sum[2] % 256, byte)], W32Shr8(crc32_sum))

RECURSIVE Crc32Loop(_, _, _)
Crc32Loop(filebytes, i, crc32_sum) ==
    IF i > Len(filebytes) THEN crc32_sum
    ELSE CHOOSE r \in {Crc32Loop(filebytes, i + 1, v) :
                        v \in {Crc32Step(crc32_sum, filebytes[i])}} : TRUE

calculate_filename_crc32(filename) ==
    W32Not(Crc32Loop(NormalizeFilename(filename), 1, <<65535, 65535>>))

\* The reflected CCITT polynomial of CRC16_CCITT_TABLE_REVERSE.
CRC16_CONSTANT == 33800

Crc16TableRound(crc) ==
    IF crc % 2 = 1 THEN XorNat(crc \div 2, CRC16_CONSTANT) ELSE crc \div 2

RECURSIVE Crc16TableRounds(_, _)
Crc16TableRounds(crc, j) ==
    IF j >= 8 THEN crc
    ELSE CHOOSE r \in {Crc16TableRounds(v, j + 1) : v \in {Crc16TableRound(crc)}} : TRUE

\* pakdump.crc.CRC16_CCITT_TABLE_REVERSE
CRC16_CCITT_TABLE_REVERSE == [i \in 0..255 |-> Crc16TableRounds(i, 0)]

\* ((crc16 >> 8) ^ CRC16_CCITT_TABLE_REVERSE[(crc16 ^ b) & 0x00FF]) & 0xFFFF
Crc16Step(crc16, b) ==
    XorNat(crc16 \div 256, CRC16_CCITT_TABLE_REVERSE[XorNat(crc16, b) % 256]) % 65536

RECURSIVE Crc16Loop(_, _, _)
Crc16Loop(filebytes, i, crc16) ==
    IF i > Len(filebytes) THEN crc16
    ELSE CHOOSE r \in {Crc16Loop(filebytes, i + 1, v) :
                        v \in {Crc16Step(crc16, filebytes[i])}} : TRUE

calculate_filename_crc16(filename) == 65535 - Crc16Loop(filename, 1, 65535)

\* Bound of the number of successive normalisations of one path.
MaxNormSteps == 2

CrcPrefixes ==
    { <<>>,
      <<100, 97, 116, 97, 47>>,                        \* data/
      <<68, 65, 84, 65, 47>>,                          \* DATA/
      <<47, 100, 97, 116, 97, 47>>,                    \* /data/
      <<47, 68, 65, 84, 65, 47>>,                      \* /DATA/
      <<100, 97, 116, 97, 47, 97, 101, 112, 47>>,      \* data/aep/
      <<100, 97, 116, 97, 47, 65, 69, 80, 47>>,        \* data/AEP/
      <<47, 100, 97, 116, 97, 47, 97, 101, 112, 47>>,  \* /data/aep/
      <<47, 68, 65, 84, 65, 47, 65, 69, 80, 47>>,      \* /DATA/AEP/
      <<47, 100, 97, 116, 97, 47, 65, 101, 112, 47>>,  \* /data/Aep/
      <<47, 120, 47>> }                                \* /x/

CrcStems ==
    { <<120>>,                                         \* x
      <<88>>,                                          \* X
      <<97, 66>>,                                      \* aB
      <<102, 111, 111, 46, 98, 105, 110>> }            \* foo.bin

CrcPaths == {pre \o stem : pre \in CrcPrefixes, stem \in CrcStems}

CrcInit ==
    /\ crcPath \in CrcPaths
    /\ crcResults = <<>>
    /\ crcNorm = <<>>

CrcCompute(query, filename) ==
    /\ query \notin DOMAIN crcResults
    /\ crcResults' = MapSet(crcResults, query, calculate_filename_crc32(filename))
    /\ UNCHANGED <<crcPath, crcNorm>>
    /\ UNCHANGED <<cipherVars, songVars, idxVars, dumpVars, mdbVars, mainVars, recVars, expVars>>

\* calculate_filename_crc32(path)
CrcOfPath == CrcCompute("path", crcPath)

\* calculate_filename_crc32(path.lower())
CrcOfLower == CrcCompute("lower", Lower(crcPath))

\* calculate_filename_crc32("/" + path)
CrcOfSlashed == CrcCompute("slashed", TextSlash \o crcPath)

\* The normalisation applied to the path, then to its own result.
CrcNormalize ==
    /\ Len(crcNorm) < MaxNormSteps
    /\ crcNorm' = Append(crcNorm,
                         NormalizeFilename(IF crcNorm = <<>> THEN crcPath
                                           ELSE crcNorm[Len(crcNorm)]))
    /\ UNCHANGED <<crcPath, crcResults>>
    /\ UNCHANGED <<cipherVars, songVars, idxVars, dumpVars, mdbVars, mainVars, recVars, expVars>>

CrcNext == CrcOfPath \/ CrcOfLower \/ CrcOfSlashed \/ CrcNormalize

(***************************************************************************)
(* Extraction pipeline: PakDumper.get_md5sum, decrypt, extract_data_mem,   *)
(* extract_data, dump and file_exists.                                     *)
(*                                                                         *)
(* packlist is the set of pack ids generate_packlist found, disk maps the  *)
(* id of each container file present under the input path to its bytes,    *)
(* outfs maps each file under the output path to its bytes and outdirs is  *)
(* the set of directories there (<<>> is the output path itself).          *)
(***************************************************************************)
\* hashlib.md5 is a library digest; it is modelled by a 16-byte checksum that
\* depends on the length, the values and the order of the bytes.
RECURSIVE Md5Mix(_, _, _, _)
Md5Mix(data, k, i, acc) ==
    IF i > Len(data) THEN acc
    ELSE Md5Mix(data, k, i + 1, (acc * 31 + (data[i] + 1) * (i + k)) % 256)

Md5Digest(data) == [k \in 1..16 |-> Md5Mix(data, k, 1, (Len(data) + 7 * k) % 256)]

\* PakDumper.get_md5sum: md5.digest().hex(), the digest computed once.
get_md5sum(data) == CHOOSE h \in {Hex(d) : d \in {Md5Digest(data)}} : TRUE

\* The mask pakdec.decrypt applies to byte i: the primitive is a native
\* routine outside the sources, taken here as a keyed transformation of the
\* buffer in place that changes every byte.
PakdecMask(crc32, crc16, i) == ((crc32[2] + crc16 + 13 * i) % 255) + 1

\* pakdec.decrypt(data, length, crc32, crc16)
PakdecDecrypt(data, length, crc32, crc16) ==
    [i \in 1..Len(data) |->
        IF i <= length THEN XorNat(data[i], PakdecMask(crc32, crc16, i)) ELSE data[i]]

\* PakDumper.decrypt
dumper_decrypt(data, entry) == PakdecDecrypt(data, Len(data), entry.crc32, entry.crc16)

\* data[lo:hi], which Python clamps to the data.
PySlice(data, lo, hi) ==
    SubSeq(data, lo + 1, IF hi < Len(data) THEN hi ELSE Len(data))

\* A mutant of DecryptIfEncrypted: the slice is decrypted whatever its digest.
DecryptAlways(data, entry) == [data |-> dumper_decrypt(data, entry), decrypts |-> 1]

\* extract_data_mem, "if the data is encrypted, lets decrypt it": the data
\* after the step and the number of calls of decrypt made.
DecryptIfEncrypted(data, entry) ==
    IF get_md5sum(data) # entry.md5sum
    THEN [data |-> dumper_decrypt(data, entry), decrypts |-> 1]
    ELSE [data |-> data, decrypts |-> 0]

\* A mutant of VerifyMd5: the data is returned without the second check.
VerifyNothing(r, entry) == [data |-> r.data, decrypts |-> r.decrypts, error |-> "ok"]

\* extract_data_mem, "make sure the md5sum matches"
VerifyMd5(r, entry) ==
    IF get_md5sum(r.data) # entry.md5sum
    THEN [data |-> None, decrypts |-> r.decrypts, error |-> "md5"]
    ELSE [data |-> r.data, decrypts |-> r.decrypts, error |-> "ok"]

\* PakDumper.extract_data_mem: the data returned (None on failure), the error
\* logged and the number of calls of decrypt.
extract_data_mem(key) ==
    LET entry == entries[key]
    IN  IF entry.packid \notin packlist
        THEN [data |-> None, decrypts |-> 0, error |-> "bad_pack_id"]
        ELSE IF entry.packid \notin DOMAIN disk
        THEN [data |-> None, decrypts |-> 0, error |-> "no_packpath"]
        ELSE VerifyMd5(DecryptIfEncrypted(PySlice(disk[entry.packid], entry.offset,
                                                  entry.offset + entry.filesize),
                                          entry),
                       entry)

\* filepath[1:] if filepath.startswith("/") else filepath
OutputPath(filepath) ==
    IF StartsWith(filepath, TextSlash) THEN SubSeq(filepath, 2, Len(filepath)) ELSE filepath

\* output_path.parent and its parents, down to the output path itself.
ParentDirs(path) ==
    {SubSeq(path, 1, i - 1) : i \in {j \in 1..Len(path) : path[j] = 47}} \cup {<<>>}

\* output_path.exists()
PathExists(path) == path \in DOMAIN outfs \/ path \in outdirs

\* A mutant of WriteIsSkipped: an existing destination is overwritten.
WriteNeverSkipped(exists, force_flag) == FALSE

\* extract_data, "only write the data if it doesn't already exist":
\* output_path.exists() and not self.force
WriteIsSkipped(exists, force_flag) == exists /\ ~force_flag

\* PakDumper.extract_data: the files and directories under the output path
\* after the call, and what the call did.
extract_data(key) ==
    LET r == extract_data_mem(key)
        output_path == OutputPath(entries[key].filename)
        did == [key |-> key, run |-> dumpRuns, data |-> r.data,
                decrypts |-> r.decrypts, error |-> r.error]
    IN  IF r.data = None
        THEN [fs |-> outfs, dirs |-> outdirs,
              event |-> did @@ [path |-> None, wrote |-> FALSE]]
        ELSE IF WriteIsSkipped(PathExists(output_path), force)
        THEN [fs |-> outfs, dirs |-> outdirs \cup ParentDirs(output_path),
              event |-> did @@ [path |-> output_path, wrote |-> FALSE]]
        ELSE [fs |-> MapSet(outfs, output_path, r.data),
              dirs |-> outdirs \cup ParentDirs(output_path),
              event |-> did @@ [path |-> output_path, wrote |-> TRUE]]

\* The order sorted() gives the keys at positions i and j of the dictionary:
\* by (packid, offset), and by position for equal pairs (the sort is stable).
SortsBefore(es, order, i, j) ==
    LET a == es[order[i]]
        b == es[order[j]]
    IN  \/ a.packid < b.packid
        \/ a.packid = b.packid /\ a.offset < b.offset
        \/ a.packid = b.packid /\ a.offset = b.offset /\ i < j

\* A mutant of SortedKeys: the keys in the order of the dictionary.
SortedKeysAsInserted(es, order) == order

\* sorted(self.entries, key=lambda x: (entries[x].packid, entries[x].offset))
\* of a dictionary whose keys were inserted in the given order.
SortedKeys(es, order) ==
    [r \in 1..Len(order) |->
        order[CHOOSE i \in 1..Len(order) :
                Cardinality({j \in 1..Len(order) : SortsBefore(es, order, j, i)}) = r - 1]]

\* A mutant of DumpLoopNext: the loop ends at the first entry that fails.
DumpLoopStopOnFailure(i, keys, data) == IF data = None THEN Len(keys) + 1 ELSE i + 1

\* dump, "for key in sorted_keys": the position after the pass at i;
\* extract_data returns nothing and raises nothing for data that is None.
DumpLoopNext(i, keys, data) == i + 1

\* A mutant of FileExistsTest: the stored crc16 is not compared.
FileExistsByCrc32(es, crc32, crc16) == crc32 \in DOMAIN es

\* file_exists: crc32 in self.entries and self.entries[crc32].crc16 == crc16
FileExistsTest(es, crc32, crc16) == crc32 \in DOMAIN es /\ es[crc32].crc16 = crc16

\* A mutant of FileExistsFilename: the name stored is the normalised one.
FileExistsFilenameNormalised(filepath) == NormalizeFilename(filepath)

\* file_exists: the name stored in the entry, str(filepath).
FileExistsFilename(filepath) == filepath

\* Bound of the number of calls of dump.
MaxDumpRuns == 1

\* The names behind the entries of the index, in the order of the index:
\* /data/a, b, /data/aep/AbcdEfghijkLmnopq.
DumpNames ==
    << <<47, 100, 97, 116, 97, 47, 97>>,
       <<98>>,
       <<47, 100, 97, 116, 97, 47, 97, 101, 112, 47, 65, 98, 99, 100, 69, 102, 103, 104,
         105, 106, 107, 76, 109, 110, 111, 112, 113>> >>

\* /data/aep/abcdefghijklmnopQ: another spelling of the third name, with the
\* same lower-case form and the same crc16.
DumpOtherSpelling ==
    <<47, 100, 97, 116, 97, 47, 97, 101, 112, 47, 97, 98, 99, 100, 101, 102, 103, 104,
      105, 106, 107, 108, 109, 110, 111, 112, 81>>

\* The candidate paths file_exists is asked about: the names, data/a (the
\* crc32 of /data/a, another crc16), zz (in no entry) and the other spelling
\* of the third name.
DumpCandidates ==
    {DumpNames[k] : k \in 1..Len(DumpNames)}
        \cup { <<100, 97, 116, 97, 47, 97>>, <<122, 122>>, DumpOtherSpelling }

\* calculate_filename_crc32 and calculate_filename_crc16 of each candidate,
\* computed once.
DumpCandidateCrc32 == [c \in DumpCandidates |-> calculate_filename_crc32(c)]

DumpCandidateCrc16 == [c \in DumpCandidates |-> calculate_filename_crc16(c)]

\* The keys of the index in the order parse_pack_data inserted them.
DumpKeyOrder == [k \in 1..Len(DumpNames) |-> DumpCandidateCrc32[DumpNames[k]]]

DumpCrc16s == [k \in 1..Len(DumpNames) |-> DumpCandidateCrc16[DumpNames[k]]]

\* The container files pack0001.pak, pack0002.pak and pack0004.pak.
DumpPackData ==
    (1 :> <<10, 20, 30, 40>>) @@ (2 :> <<50, 60>>) @@ (4 :> <<70, 80, 90>>)

\* The container files that may be removed after generate_packlist ran.
DumpRemovable == {2}

\* What the index says of an entry: its container, its range and whether its
\* digest is that of the raw slice, of the decrypted slice or of neither.
DumpProfiles ==
    { [packid |-> 1, offset |-> 0, filesize |-> 2, kind |-> "plain"],
      [packid |-> 1, offset |-> 2, filesize |-> 2, kind |-> "enc"],
      [packid |-> 1, offset |-> 2, filesize |-> 2, kind |-> "bad"],
      [packid |-> 2, offset |-> 0, filesize |-> 2, kind |-> "plain"],
      [packid |-> 3, offset |-> 0, filesize |-> 2, kind |-> "plain"] }

DumpLastProfiles ==
    { [packid |-> 4, offset |-> 0, filesize |-> 2, kind |-> "plain"],
      [packid |-> 4, offset |-> 2, filesize |-> 2, kind |-> "enc"] }

DumpDigest(k, p) ==
    LET raw == IF p.packid \in DOMAIN DumpPackData
               THEN PySlice(DumpPackData[p.packid], p.offset, p.offset + p.filesize)
               ELSE <<>>
    IN  CASE p.kind = "plain" -> Md5Digest(raw)
          [] p.kind = "enc" ->
                Md5Digest(PakdecDecrypt(raw, Len(raw), DumpKeyOrder[k], DumpCrc16s[k]))
          [] p.kind = "bad" -> Md5Digest(<<1>>)

DumpEntry(k, p) ==
    PackInfo(DumpKeyOrder[k], DumpCrc16s[k], p.packid, p.offset, p.filesize,
             DumpDigest(k, p))

DumpInit ==
    /\ \E p1 \in DumpProfiles, p2 \in DumpProfiles, p3 \in DumpLastProfiles :
          entries = (DumpKeyOrder[1] :> DumpEntry(1, p1))
                        @@ (DumpKeyOrder[2] :> DumpEntry(2, p2))
                        @@ (DumpKeyOrder[3] :> DumpEntry(3, p3))
    /\ packlist = DOMAIN DumpPackData
    /\ disk = DumpPackData
    /\ \E present \in BOOLEAN :
          /\ outfs = IF present THEN (<<98>> :> <<7>>) ELSE <<>>
          /\ outdirs = IF present THEN {<<>>} ELSE {}
    /\ force \in BOOLEAN
    /\ resolved = [candidate |-> None, exists |-> FALSE]
    /\ dumpPc = "idle"
    /\ dumpRuns = 0
    /\ sortedKeys = <<>>
    /\ dumpIdx = 0
    /\ extracted = 0
    /\ events = <<>>

\* PakDumper.file_exists(filepath), called as main calls it: before dump.
\* resolved holds the value the last call returned.
FileExists(filepath) ==
    /\ dumpPc = "idle"
    /\ \E crc32 \in {DumpCandidateCrc32[filepath]},
          crc16 \in {DumpCandidateCrc16[filepath]} :
          LET exists == FileExistsTest(entries, crc32, crc16)
          IN  /\ entries' = IF exists
                            THEN [entries EXCEPT ![crc32].filename = FileExistsFilename(filepath)]
                            ELSE entries
              /\ resolved' = [candidate |-> filepath, exists |-> exists]
    /\ UNCHANGED <<packlist, disk, outfs, outdirs, force, dumpPc, dumpRuns,
                   sortedKeys, dumpIdx, extracted, events>>
    /\ UNCHANGED <<cipherVars, songVars, idxVars, crcVars, mdbVars, mainVars, recVars, expVars>>

FileExistsAny == \E filepath \in DumpCandidates : FileExists(filepath)

\* dump, up to the loop: the keys are sorted and the count starts at 0.
DumpStart ==
    /\ dumpPc \in {"idle", "done"}
    /\ dumpRuns < MaxDumpRuns
    /\ dumpRuns' = dumpRuns + 1
    /\ sortedKeys' = SortedKeys(entries, DumpKeyOrder)
    /\ extracted' = 0
    /\ dumpIdx' = 1
    /\ dumpPc' = "loop"
    /\ UNCHANGED <<entries, packlist, disk, outfs, outdirs, force, resolved, events>>
    /\ UNCHANGED <<cipherVars, songVars, idxVars, crcVars, mdbVars, mainVars, recVars, expVars>>

\* One pass of dump's loop: an entry without a name is passed over, an entry
\* with a name is handed to extract_data and counted.
DumpStep ==
    /\ dumpPc = "loop"
    /\ dumpIdx <= Len(sortedKeys)
    /\ LET key == sortedKeys[dumpIdx]
       IN  IF entries[key].filename # None
           THEN \E r \in {extract_data(key)} :
                   /\ outfs' = r.fs
                   /\ outdirs' = r.dirs
                   /\ events' = Append(events, r.event)
                   /\ extracted' = extracted + 1
                   /\ dumpIdx' = DumpLoopNext(dumpIdx, sortedKeys, r.event.data)
           ELSE /\ dumpIdx' = dumpIdx + 1
                /\ UNCHANGED <<outfs, outdirs, events, extracted>>
    /\ UNCHANGED <<entries, packlist, disk, force, resolved, dumpPc, dumpRuns,
                   sortedKeys>>
    /\ UNCHANGED <<cipherVars, songVars, idxVars, crcVars, mdbVars, mainVars, recVars, expVars>>

\* dump, after the loop: the counts are logged and dump returns.
DumpEnd ==
    /\ dumpPc = "loop"
    /\ dumpIdx > Len(sortedKeys)
    /\ dumpPc' = "done"
    /\ UNCHANGED <<entries, packlist, disk, outfs, outdirs, force, resolved,
                   dumpRuns, sortedKeys, dumpIdx, extracted, events>>
    /\ UNCHANGED <<cipherVars, songVars, idxVars, crcVars, mdbVars, mainVars, recVars, expVars>>

\* The environment: a container file is removed from the input directory
\* after the dumper globbed it into its packlist.
ContainerRemoved ==
    /\ \E p \in DumpRemovable \cap DOMAIN disk :
          disk' = [q \in DOMAIN disk \ {p} |-> disk[q]]
    /\ UNCHANGED <<entries, packlist, outfs, outdirs, force, resolved, dumpPc,
                   dumpRuns, sortedKeys, dumpIdx, extracted, events>>
    /\ UNCHANGED <<cipherVars, songVars, idxVars, crcVars, mdbVars, mainVars, recVars, expVars>>

DumpNext == FileExistsAny \/ DumpStart \/ DumpStep \/ DumpEnd \/ ContainerRemoved

(***************************************************************************)
(* Command line of pakdump: main of pakdump_base.py, after parse_args and  *)
(* the construction of the PakDumper.                                      *)
(***************************************************************************)
\* The entries after dumper.file_exists was called on each path in turn.
RECURSIVE FileExistsEach(_, _)
FileExistsEach(es, paths) ==
    IF paths = <<>> THEN es
    ELSE \* the entries after the call on the first path
         CHOOSE r \in
           {FileExistsEach(
               IF FileExistsTest(es, DumpCandidateCrc32[Head(paths)],
                                 DumpCandidateCrc16[Head(paths)])
               THEN [es EXCEPT ![DumpCandidateCrc32[Head(paths)]].filename =
                                     FileExistsFilename(Head(paths))]
               ELSE es,
               rest) : rest \in {Tail(paths)}} : TRUE

\* What the last call of file_exists on the paths returned.
FileExistsLast(es, paths) ==
    LET before == FileExistsEach(es, SubSeq(paths, 1, Len(paths) - 1))
        last == paths[Len(paths)]
    IN  [candidate |-> last,
         exists |-> FileExistsTest(before, DumpCandidateCrc32[last], DumpCandidateCrc16[last])]

\* The parsed arguments: --test-filepath, --extract-filepath, --dryrun, and
\* the paths listed in the file of --filelist-path.
MainTestFilepaths == { <<>>, << DumpNames[1], <<122, 122>> >> }

MainExtractFilepaths == { <<>>, << DumpNames[2] >>, << DumpNames[1], DumpNames[3] >> }

MainFilelists == { << DumpNames[2] >>, DumpNames }

MainArgSets ==
    [test_filepath : MainTestFilepaths,
     extract_filepath : MainExtractFilepaths,
     filelist : MainFilelists,
     dryrun : BOOLEAN]

MainInit ==
    /\ mainArgs \in MainArgSets
    /\ mainPc = "start"

\* main, "if p_args.test_filepath != []": each path is tested and main ends.
MainTest ==
    /\ mainPc = "start"
    /\ mainArgs.test_filepath # <<>>
    /\ entries' = FileExistsEach(entries, mainArgs.test_filepath)
    /\ resolved' = FileExistsLast(entries, mainArgs.test_filepath)
    /\ mainPc' = "end"
    /\ UNCHANGED <<packlist, disk, outfs, outdirs, force, dumpPc, dumpRuns,
                   sortedKeys, dumpIdx, extracted, events, mainArgs>>
    /\ UNCHANGED <<cipherVars, songVars, idxVars, crcVars, mdbVars, recVars, expVars>>

\* main, "elif p_args.extract_filepath != []": each path is resolved, then
\* dumper.dump() is called.
MainExtract ==
    /\ mainPc = "start"
    /\ mainArgs.test_filepath = <<>>
    /\ mainArgs.extract_filepath # <<>>
    /\ entries' = FileExistsEach(entries, mainArgs.extract_filepath)
    /\ resolved' = FileExistsLast(entries, mainArgs.extract_filepath)
    /\ mainPc' = "dump"
    /\ UNCHANGED <<packlist, disk, outfs, outdirs, force, dumpPc, dumpRuns,
                   sortedKeys, dumpIdx, extracted, events, mainArgs>>
    /\ UNCHANGED <<cipherVars, songVars, idxVars, crcVars, mdbVars, recVars, expVars>>

\* load_filelist(dumper, filepath): every path listed in the file is resolved
\* with dumper.file_exists.
LoadFilelist(es, filelist) == FileExistsEach(es, filelist)

\* main, "else": the file list is loaded; dumper.dump() is called only if
\* this isn't a dry run, otherwise the totals are printed and main ends.
MainFilelist ==
    /\ mainPc = "start"
    /\ mainArgs.test_filepath = <<>>
    /\ mainArgs.extract_filepath = <<>>
    /\ entries' = LoadFilelist(entries, mainArgs.filelist)
    /\ resolved' = FileExistsLast(entries, mainArgs.filelist)
    /\ mainPc' = IF ~mainArgs.dryrun THEN "dump" ELSE "end"
    /\ UNCHANGED <<packlist, disk, outfs, outdirs, force, dumpPc, dumpRuns,
                   sortedKeys, dumpIdx, extracted, events, mainArgs>>
    /\ UNCHANGED <<cipherVars, songVars, idxVars, crcVars, mdbVars, recVars, expVars>>

\* The call dumper.dump() of main, step by step; main ends when it returns.
MainDump ==
    /\ mainPc = "dump"
    /\ dumpPc # "done"
    /\ (DumpStart \/ DumpStep \/ DumpEnd)

MainNext == MainTest \/ MainExtract \/ MainFilelist \/ MainDump

(***************************************************************************)
(* MDB container: MDBHeader, MDBCourse and MDB (rich_import, create,       *)
(* decrypt, build).  A header, a song and a course are records of their    *)
(* fields; a difficulty list is the tuple of its 16 values.                *)
(***************************************************************************)
\* MDBHeader.STRUCT_FORMAT = "<8biihhhhh"
HeaderFormat == Rep("b", 8) \o <<"i", "i">> \o Rep("h", 5)

HeaderLayout == StructLayout(HeaderFormat)

\* MDBHeader.DATA_SIZE = 0x40
HEADER_DATA_SIZE == 64

\* MDB.IDENTIFIER = "GF/DMmdb"
IDENTIFIER == <<71, 70, 47, 68, 77, 109, 100, 98>>

\* HEADER_FORMAT = 0x66
HEADER_FORMAT == 102

\* MDBCourse.STRUCT_FORMAT = "<iI4i16B"
CourseFormat == <<"i", "I">> \o Rep("i", 4) \o Rep("B", 16)

CourseLayout == StructLayout(CourseFormat)

\* MDBCourse.DATA_SIZE = 0x28
COURSE_DATA_SIZE == 40

\* text.encode("UTF-8") of a text of code points below 2048, as its bytes.
RECURSIVE Utf8Encode(_)
Utf8Encode(text) ==
    IF text = <<>> THEN <<>>
    ELSE (IF Head(text) < 128 THEN <<Head(text)>>
          ELSE <<192 + (Head(text) \div 64), 128 + (Head(text) % 64)>>)
         \o Utf8Encode(Tail(text))

\* A mutant of HeaderPackArgs: course_size goes before course_number.
HeaderPackArgsSizeFirst(h) ==
    Utf8Encode(h.id) \o <<h.format, h.checksum, h.header_size, h.record_size, h.record_number,
              h.course_size, h.course_number>>

\* The values MDBHeader.to_bytearray hands to struct.pack_into, in its order:
\* course_number goes before course_size.
HeaderPackArgs(h) ==
    Utf8Encode(h.id) \o <<h.format, h.checksum, h.header_size, h.record_size, h.record_number,
              h.course_number, h.course_size>>

\* MDBHeader.to_bytearray
HeaderToByteArray(h) ==
    struct_pack_into(HeaderLayout, [p \in 1..HEADER_DATA_SIZE |-> 0], HeaderPackArgs(h))

\* A mutant of HeaderFromByteData: the last two values are taken as
\* course_size, course_number.
HeaderFromByteDataSizeFirst(data) ==
    [id |-> Slice(data, 0, 8),
     format |-> data[9],
     checksum |-> data[10],
     header_size |-> data[11],
     record_size |-> data[12],
     record_number |-> data[13],
     course_size |-> data[14],
     course_number |-> data[15]]

\* MDBHeader.from_byte_data on the unpacked tuple, whose first 8 values are
\* bytes (0..127) here: the last two values are course_number, course_size.
HeaderFromByteData(data) ==
    [id |-> Slice(data, 0, 8),
     format |-> data[9],
     checksum |-> data[10],
     header_size |-> data[11],
     record_size |-> data[12],
     record_number |-> data[13],
     course_size |-> data[15],
     course_number |-> data[14]]

\* A mutant of HeaderFromRichImport: the sizes are the record widths.
HeaderFromRichImportFullSizes(songs, courses) ==
    [id |-> IDENTIFIER, format |-> HEADER_FORMAT, checksum |-> 0,
     header_size |-> HEADER_DATA_SIZE,
     record_size |-> SONG_DATA_SIZE, record_number |-> songs,
     course_size |-> COURSE_DATA_SIZE, course_number |-> courses]

\* MDBHeader.from_rich_import(songs, courses)
HeaderFromRichImport(songs, courses) ==
    [id |-> IDENTIFIER, format |-> HEADER_FORMAT, checksum |-> 0,
     header_size |-> HEADER_DATA_SIZE,
     record_size |-> SONG_DATA_SIZE - 4, record_number |-> songs,
     course_size |-> COURSE_DATA_SIZE - 4, course_number |-> courses]

\* MDBCourse.to_bytearray: the packed buffer, or Raised (struct.error).
CourseToByteArray(c) ==
    struct_pack_into(CourseLayout, [p \in 1..COURSE_DATA_SIZE |-> 0],
                     <<c.course_id, c.course_flag>> \o c.music_ids \o c.difficulty)

\* MDBCourse.from_byte_data on the unpacked tuple.
CourseFromByteData(data) ==
    [course_id |-> data[1],
     course_flag |-> data[2],
     music_ids |-> Slice(data, 2, 6),
     difficulty |-> Slice(data, 6, 22)]

\* The concatenation of the buffers of a sequence, Raised if one is Raised.
RECURSIVE ConcatBuffers(_)
ConcatBuffers(bufs) ==
    IF bufs = <<>> THEN <<>>
    ELSE LET rest == ConcatBuffers(Tail(bufs))
         IN  IF Head(bufs) = Raised \/ rest = Raised THEN Raised
             ELSE Head(bufs) \o rest

\* MDB.create: header, then the songs, then the courses, in dictionary order.
MdbCreate(header, songs, courses) ==
    ConcatBuffers(<<HeaderToByteArray(header)>>
                  \o [k \in 1..Len(songs) |-> SongToByteArray(songs[k])]
                  \o [k \in 1..Len(courses) |-> CourseToByteArray(courses[k])])

\* The smallest element of a non-empty set of integers.
MinOf(S) == CHOOSE x \in S : \A y \in S : x <= y

\* idx_start = start_point + (song_data_size * count), start_point being
\* MDBHeader.DATA_SIZE.
BuildSongIdxStart(song_data_size, count) == HEADER_DATA_SIZE + song_data_size * count

\* The start point of the course loop.
BuildCourseStartPoint(header) ==
    HEADER_DATA_SIZE + (header.record_size + 4) * header.record_number

\* A mutant of BuildCourseIdxStart: the stride is the header's course size.
BuildCourseIdxStartHeaderStride(start_point, course_data_size, count) ==
    start_point + (course_data_size - 4) * count

\* idx_start = start_point + (course_data_size * count)
BuildCourseIdxStart(start_point, course_data_size, count) ==
    start_point + course_data_size * count

\* One pass of build's song loop: <<song>>, or <<>> when struct.unpack_from
\* (fewer bytes than the format) or the decoding of the title raises.
BuildSongAt(data, song_data_size, count) ==
    LET idx_start == BuildSongIdxStart(song_data_size, count)
        raw_song_data == PySlice(data, idx_start, idx_start + song_data_size)
        song_data == struct_unpack_from(SongLayout, raw_song_data)
    IN  IF Len(raw_song_data) < SongLayout.size THEN <<>>
        ELSE IF ~IsAsciiText(Slice(song_data, 27, 43)) THEN <<>>
        ELSE <<SongFromByteData(song_data)>>

\* One pass of build's course loop: <<course>>, or <<>> when
\* struct.unpack_from raises.
BuildCourseAt(data, start_point, course_data_size, count) ==
    LET idx_start == BuildCourseIdxStart(start_point, course_data_size, count)
        raw_course_data == PySlice(data, idx_start, idx_start + course_data_size)
    IN  IF Len(raw_course_data) < CourseLayout.size THEN <<>>
        ELSE <<CourseFromByteData(struct_unpack_from(CourseLayout, raw_course_data))>>

\* The dictionary a loop of build leaves, from the outcome of each pass: the
\* records of the passes before the first that raised, each under its id, a
\* later one replacing an earlier one of the same id; and whether a pass
\* raised.
BuildIdOf(r) == IF "music_id" \in DOMAIN r THEN r.music_id ELSE r.course_id

\* A mutant of BuildKept: the first pass that stored under an id keeps it.
BuildKeptFirst(passes) == MinOf(passes)

\* self.songs[song.music_id] = song, self.courses[course.course_id] = course:
\* of the passes that stored under one id, the last is the one kept.
BuildKept(passes) == MaxOf(passes)

BuildDict(rec) ==
    LET bad == {c \in DOMAIN rec : rec[c] = <<>>}
    IN  \* every pass before the first that raised
        CHOOSE d \in
          {[raised |-> bad # {},
            map |-> [id \in {BuildIdOf(rec[c][1]) : c \in 1..last} |->
                       rec[BuildKept({c \in 1..last : BuildIdOf(rec[c][1]) = id})][1]]]
             : last \in {IF bad = {} THEN Len(rec) ELSE MinOf(bad) - 1}} : TRUE

BuildSongs(data, header) ==
    LET n == IF header.record_number > 0 THEN header.record_number ELSE 0
    IN  CHOOSE d \in
          {BuildDict(rec) :
             rec \in {[c \in 1..n |-> BuildSongAt(data, header.record_size + 4, c - 1)]}}
          : TRUE

BuildCourses(data, header) ==
    LET n == IF header.course_number > 0 THEN header.course_number ELSE 0
        start_point == BuildCourseStartPoint(header)
    IN  CHOOSE d \in
          {BuildDict(rec) :
             rec \in {[c \in 1..n |->
                         BuildCourseAt(data, start_point, header.course_size + 4, c - 1)]}}
          : TRUE

\* A mutant of HeaderIdIsValid: the identifier is not checked.
HeaderIdUnchecked(header) == TRUE

\* build, "make sure the type is correct": self.header.id == self.IDENTIFIER
HeaderIdIsValid(header) == header.id = IDENTIFIER

\* The fields of the MDB object that build sets, and how build ended.
MdbBuilt(pc, error, input, data, header, songs, courses) ==
    [pc |-> pc, error |-> error, input |-> input, decrypted_data |-> data,
     header |-> header, songs |-> songs, courses |-> courses]

\* build from "make sure the type is correct" on, with self.header set.
MdbBuildRecords(input, data, header) ==
    IF ~HeaderIdIsValid(header)
    THEN MdbBuilt("error", "identifier", input, data, header, <<>>, <<>>)
    ELSE CHOOSE r \in
           {IF s.raised
            THEN MdbBuilt("error", "song", input, data, header, s.map, <<>>)
            ELSE CHOOSE q \in
                   {IF c.raised
                    THEN MdbBuilt("error", "course", input, data, header, s.map, c.map)
                    ELSE MdbBuilt("built", "none", input, data, header, s.map, c.map)
                      : c \in {BuildCourses(data, header)}} : TRUE
              : s \in {BuildSongs(data, header)}} : TRUE

\* build from MDBHeader.from_byte_data on: a negative identifier byte makes
\* bytes(...) raise ValueError.
MdbBuildHeader(input, data, header_data) ==
    IF \E k \in 1..8 : header_data[k] < 0
    THEN MdbBuilt("error", "value", input, data, <<>>, <<>>, <<>>)
    ELSE CHOOSE r \in
           {MdbBuildRecords(input, data, header)
              : header \in {HeaderFromByteData(header_data)}} : TRUE

\* MDB.build on the decrypted data of the file input: header is <<>> while
\* self.header is None.
MdbBuild(input, data) ==
    IF Len(PySlice(data, 0, HEADER_DATA_SIZE)) < HeaderLayout.size
    THEN MdbBuilt("error", "struct", input, data, <<>>, <<>>, <<>>)
    ELSE CHOOSE r \in
           {MdbBuildHeader(input, data, header_data)
              : header_data \in {struct_unpack_from(HeaderLayout,
                                     PySlice(data, 0, HEADER_DATA_SIZE))}} : TRUE

\* The passes of a loop of build that ran, from the outcome of each pass: all
\* of them, or those up to the first that raised.
BuildPasses(rec) ==
    LET bad == {c \in DOMAIN rec : rec[c] = <<>>}
    IN  IF bad = {} THEN Len(rec) ELSE MinOf(bad)

\* The slices data[idx_start:idx_end] that build took from the data, as the
\* idx_start of each in the order taken: those of the song loop and those of
\* the course loop.  built is what build left.
MdbBuildReads(built) ==
    IF built.error \in {"struct", "value", "identifier"}
    THEN [songs |-> <<>>, courses |-> <<>>]
    ELSE LET header == built.header
             data == built.decrypted_data
             ns == IF header.record_number > 0 THEN header.record_number ELSE 0
             nc == IF header.course_number > 0 THEN header.course_number ELSE 0
             srec == [c \in 1..ns |-> BuildSongAt(data, header.record_size + 4, c - 1)]
             crec == [c \in 1..nc |->
                        BuildCourseAt(data, BuildCourseStartPoint(header),
                                      header.course_size + 4, c - 1)]
         IN  [songs |-> [c \in 1..BuildPasses(srec) |->
                           BuildSongIdxStart(header.record_size + 4, c - 1)],
              courses |->
                 IF built.error = "song" THEN <<>>
                 ELSE [c \in 1..BuildPasses(crec) |->
                         BuildCourseIdxStart(BuildCourseStartPoint(header),
                                             header.course_size + 4, c - 1)]]

\* MDB.decrypt: the input file read and decrypted.
MdbDecrypt(file) == apply_encryption_key(file, TRUE)

\* Bound of the number of courses in an imported music db.
MaxMdbCourses == 2

\* A song with every field in its slot's range.
MdbSongRecord(id, title) ==
    [music_id |-> id,
     difficulty |-> [k \in 1..16 |-> 10 * k],
     pad_diff |-> 1,
     seq_flag |-> 2,
     contain_stat |-> <<1, 2>>,
     first_ver |-> <<3, 4>>,
     b_long |-> TRUE,
     b_eemall |-> FALSE,
     bpm |-> 120,
     bpm2 |-> 130,
     title_ascii |-> title,
     order_ascii |-> 513,
     order_kana |-> 65535,
     category_kana |-> 7,
     secret |-> <<0, 1>>,
     b_session |-> 1,
     speed |-> 2,
     life |-> 3,
     gf_offset |-> -1,
     dm_offset |-> -2,
     chart_list |-> [k \in 1..CHART_LIST_LEN |-> 255],
     origin |-> 8,
     music_type |-> 9,
     genre |-> 10,
     is_remaster |-> 1]

MdbCourseRecord(id, flag) ==
    [course_id |-> id,
     course_flag |-> flag,
     music_ids |-> <<1, 2, 70000, -4>>,
     difficulty |-> [k \in 1..16 |-> 15 * k]]

\* The songs of an imported music db: none, one titled ABC, one with a title
\* of 18 characters.
MdbSongLists ==
    { <<>>,
      <<MdbSongRecord(5, <<65, 66, 67>>)>>,
      <<MdbSongRecord(5, [k \in 1..18 |-> 64 + k])>> }

MdbCourseLists == SeqsUpTo({MdbCourseRecord(1, 7), MdbCourseRecord(-2, 66000)}, MaxMdbCourses)

\* The imported music dbs: every list of courses without songs, and each
\* list of songs with at most one course.
MdbJsonInputs ==
    {j \in [songs : MdbSongLists, courses : MdbCourseLists] :
        j.songs # <<>> => Len(j.courses) <= 1}

\* A header as it lies in a file, with the given identifier and counts.
MdbHeaderBytes(id, format, checksum, songs, courses) ==
    HeaderToByteArray([id |-> id, format |-> format, checksum |-> checksum,
                       header_size |-> HEADER_DATA_SIZE,
                       record_size |-> SONG_DATA_SIZE - 4, record_number |-> songs,
                       course_size |-> COURSE_DATA_SIZE - 4, course_number |-> courses])

\* The decrypted contents of the mdbe.bin files the forward path is given:
\* a good file of one course; a good file with other header values; a file of
\* two courses under the identifier GF/DMmdc; a file whose
\* identifier has a byte above 127; a file of 20 bytes; a file that declares
\* two courses and holds one and a half; a file of two courses that have one
\* id and different flags.
MdbCraftedPlain ==
    LET course == CourseToByteArray(MdbCourseRecord(9, 5))
        wrong_id == <<71, 70, 47, 68, 77, 109, 100, 99>>
    IN  { MdbHeaderBytes(IDENTIFIER, HEADER_FORMAT, 0, 0, 1) \o course,
          MdbHeaderBytes(IDENTIFIER, -5, 70000, 0, 1) \o course,
          MdbHeaderBytes(wrong_id, HEADER_FORMAT, 0, 0, 2) \o course \o course,
          [MdbHeaderBytes(IDENTIFIER, HEADER_FORMAT, 0, 0, 1) EXCEPT ![1] = 200] \o course,
          SubSeq(MdbHeaderBytes(IDENTIFIER, HEADER_FORMAT, 0, 0, 1), 1, 20),
          MdbHeaderBytes(IDENTIFIER, HEADER_FORMAT, 0, 0, 2) \o course
              \o SubSeq(course, 1, 20),
          MdbHeaderBytes(IDENTIFIER, HEADER_FORMAT, 0, 0, 2) \o course
              \o CourseToByteArray(MdbCourseRecord(9, 6)) }

MdbCraftedFiles == {apply_encryption_key(plain, FALSE) : plain \in MdbCraftedPlain}

MdbInit ==
    /\ mdbJson \in MdbJsonInputs
    /\ mdbForce \in BOOLEAN
    /\ mdbFile \in {None} \cup MdbCraftedFiles
    /\ mdbImp = [pc |-> "new"]
    /\ mdbFwd = [pc |-> "new"]
    /\ mdbReads = <<>>

\* MDB.__init__ on a .json input (mdbcreate): rich_import reads the songs and
\* the courses, derives the header, creates the data, encrypts it and writes
\* it to the output path.  A raise in create leaves the file as it was.
MdbRichImport ==
    /\ mdbImp.pc = "new"
    /\ \E header \in {HeaderFromRichImport(Len(mdbJson.songs), Len(mdbJson.courses))} :
       \E data \in {MdbCreate(header, mdbJson.songs, mdbJson.courses)} :
          IF data = Raised
          THEN /\ mdbImp' = [pc |-> "error", header |-> header, songs |-> mdbJson.songs,
                             courses |-> mdbJson.courses, decrypted_data |-> None]
               /\ mdbFile' = mdbFile
          ELSE /\ mdbImp' = [pc |-> "imported", header |-> header,
                             songs |-> mdbJson.songs, courses |-> mdbJson.courses,
                             decrypted_data |-> data]
               /\ mdbFile' = apply_encryption_key(data, FALSE)
    /\ UNCHANGED <<mdbJson, mdbForce, mdbFwd, mdbReads>>
    /\ UNCHANGED <<cipherVars, songVars, idxVars, crcVars, dumpVars, mainVars, recVars, expVars>>

\* MDB.__init__ on the file as a .bin input (the forward path): decrypt, then
\* build.
MdbLoad ==
    /\ mdbFile # None
    /\ \E data \in {MdbDecrypt(mdbFile)} :
       \E built \in {MdbBuild(mdbFile, data)} :
          /\ mdbFwd' = built
          /\ mdbReads' = MdbBuildReads(built)
    /\ UNCHANGED <<mdbJson, mdbForce, mdbFile, mdbImp>>
    /\ UNCHANGED <<cipherVars, songVars, idxVars, crcVars, dumpVars, mainVars, recVars, expVars>>

MdbNext == MdbRichImport \/ MdbLoad

(***************************************************************************)
(* MDB header and course codecs: to_bytearray, then struct.unpack_from and *)
(* from_byte_data, of one record.                                          *)
(***************************************************************************)
\* "GF/DMmdc", an identifier that is ASCII but not MDB.IDENTIFIER.
RecOtherId == <<71, 70, 47, 68, 77, 109, 100, 99>>

\* An identifier of 8 characters of which one is not ASCII.
RecLatinId == <<71, 70, 47, 68, 77, 109, 100, 233>>

\* The headers encoded: fields at and inside the limits of their slots, the
\* course count different from the course size; and headers to_bytearray
\* rejects (a count outside int16, an identifier that is not ASCII).
RecHeaders ==
    {[id |-> id, format |-> f, checksum |-> k, header_size |-> HEADER_DATA_SIZE,
      record_size |-> rs, record_number |-> rn, course_size |-> cs, course_number |-> cn] :
        id \in {IDENTIFIER, RecOtherId, RecLatinId},
        f \in {-2147483647 - 1, HEADER_FORMAT},
        k \in {0, 2147483647},
        rs \in {SONG_DATA_SIZE - 4, -32768},
        rn \in {0, 32767},
        cs \in {COURSE_DATA_SIZE - 4, -1},
        cn \in {2, 32767, 40000}}

\* The courses encoded, and courses to_bytearray rejects (a negative flag, a
\* difficulty above 255).
RecCourses ==
    {[course_id |-> id, course_flag |-> fl, music_ids |-> ms, difficulty |-> d] :
        id \in {-2147483647 - 1, 7},
        fl \in {0, 66000, 2147483647, -1},
        ms \in {<<1, 2, 70000, -4>>, <<0, 0, 0, 0>>, <<2147483647, -2147483647 - 1, 3, 3>>},
        d \in {[j \in 1..16 |-> 0], [j \in 1..16 |-> 15 * j], [j \in 1..16 |-> 255],
               [j \in 1..16 |-> 16 * j]}}

RecInit ==
    /\ recIn \in {[kind |-> "header", value |-> h] : h \in RecHeaders}
               \cup {[kind |-> "course", value |-> c] : c \in RecCourses}
    /\ recPc = "new"
    /\ recBytes = <<>>
    /\ recDecoded = <<>>

\* to_bytearray of the record.
RecEncode ==
    /\ recPc = "new"
    /\ \E buffer \in {IF recIn.kind = "header" THEN HeaderToByteArray(recIn.value)
                      ELSE CourseToByteArray(recIn.value)} :
          IF buffer = Raised
          THEN recPc' = "error" /\ recBytes' = <<>>
          ELSE recPc' = "encoded" /\ recBytes' = buffer
    /\ UNCHANGED <<recIn, recDecoded>>
    /\ UNCHANGED <<cipherVars, songVars, idxVars, crcVars, dumpVars, mdbVars, mainVars,
                   expVars>>

\* struct.unpack_from(STRUCT_FORMAT, bytes), then from_byte_data.
RecDecode ==
    /\ recPc = "encoded"
    /\ recPc' = "decoded"
    /\ recDecoded' =
          IF recIn.kind = "header"
          THEN HeaderFromByteData(struct_unpack_from(HeaderLayout, recBytes))
          ELSE CourseFromByteData(struct_unpack_from(CourseLayout, recBytes))
    /\ UNCHANGED <<recIn, recBytes>>
    /\ UNCHANGED <<cipherVars, songVars, idxVars, crcVars, dumpVars, mdbVars, mainVars,
                   expVars>>

RecNext == RecEncode \/ RecDecode

RecIdle ==
    /\ recIn = <<>>
    /\ recPc = "idle"
    /\ recBytes = <<>>
    /\ recDecoded = <<>>

(***************************************************************************)
(* MDB.export: the document of the object written to mdb.<format> in the    *)
(* output directory.                                                       *)
(***************************************************************************)
\* The bound on the number of export calls on one object.
MaxExports == 2

\* "old", the content of an output file that exists before the first call.
ExpOldContent == <<111, 108, 100>>

\* The export types passed: the two choices of --format and one other.
ExpTypes == {"JSON", "XML", "CSV"}

\* export_type.lower() of the types passed.
ExpLower(export_type) ==
    CASE export_type = "JSON" -> "json"
      [] export_type = "XML" -> "xml"
      [] OTHER -> "csv"

\* The objects exported, as __init__ leaves them after build: the header, the
\* songs and the courses of a file of no song and 0..2 courses.
ExpObjects ==
    {[header |-> HeaderFromRichImport(0, Len(cs)),
      songs |-> <<>>,
      courses |-> [id \in {cs[j].course_id : j \in 1..Len(cs)} |->
                     cs[MaxOf({j \in 1..Len(cs) : cs[j].course_id = id})]]] :
        cs \in MdbCourseLists}

\* str_output of export: the document of the chosen type, or Raised for a
\* type that is neither "JSON" nor "XML".  The document is kept as its type,
\* its layout and the dictionaries it is serialised from.
ExportDocument(mdb, export_type, pretty_print) ==
    IF export_type \notin {"JSON", "XML"} THEN Raised
    ELSE <<export_type, pretty_print, mdb.header, mdb.songs, mdb.courses>>

\* A mutant of ExportWrites: the file is written whatever is there.
ExportWritesAlways(exists, force_flag) == TRUE

\* if not filepath.exists() or self.force
ExportWrites(exists, force_flag) == ~exists \/ force_flag

ExpInit ==
    /\ \E mdb \in ExpObjects : \E f \in BOOLEAN : \E pp \in BOOLEAN :
          expMdb = [header |-> mdb.header, songs |-> mdb.songs, courses |-> mdb.courses,
                    force |-> f, pretty_print |-> pp]
    /\ expFs \in [{"json", "xml"} -> {None, ExpOldContent}]
    /\ expLog = <<>>

\* MDB.export(export_type): a raise leaves the directory as it was; else the
\* document is written to mdb.<export_type.lower()> when ExportWrites, and
\* an error is logged when not.
ExpExport(export_type) ==
    /\ Len(expLog) < MaxExports
    /\ \E str_output \in {ExportDocument(expMdb, export_type, expMdb.pretty_print)} :
       \E name \in {ExpLower(export_type)} :
          IF str_output = Raised
          THEN /\ expLog' = Append(expLog, [type |-> export_type, outcome |-> "raised"])
               /\ expFs' = expFs
          ELSE IF ExportWrites(expFs[name] # None, expMdb.force)
          THEN /\ expLog' = Append(expLog, [type |-> export_type, outcome |-> "written"])
               /\ expFs' = [expFs EXCEPT ![name] = str_output]
          ELSE /\ expLog' = Append(expLog, [type |-> export_type, outcome |-> "error"])
               /\ expFs' = expFs
    /\ UNCHANGED expMdb

\* mdbdump --format JSON
ExpExportJson ==
    /\ ExpExport("JSON")
    /\ UNCHANGED <<cipherVars, songVars, idxVars, crcVars, dumpVars, mdbVars, mainVars,
                   recVars>>

\* mdbdump --format XML
ExpExportXml ==
    /\ ExpExport("XML")
    /\ UNCHANGED <<cipherVars, songVars, idxVars, crcVars, dumpVars, mdbVars, mainVars,
                   recVars>>

\* export called with a type that is neither.
ExpExportOther ==
    /\ ExpExport("CSV")
    /\ UNCHANGED <<cipherVars, songVars, idxVars, crcVars, dumpVars, mdbVars, mainVars,
                   recVars>>

ExpNext == ExpExportJson \/ ExpExportXml \/ ExpExportOther

ExpIdle ==
    /\ expMdb = <<>>
    /\ expFs = <<>>
    /\ expLog = <<>>

(***************************************************************************)
(* Idle values of the other machines.                                      *)
(***************************************************************************)
SongIdle ==
    /\ song = <<>>
    /\ songPc = "idle"
    /\ songBytes = <<>>
    /\ songDecoded = <<>>

IdxIdle ==
    /\ idxRecords = <<>>
    /\ idxFile = <<>>
    /\ idxEnd = 0
    /\ idxPos = 0
    /\ idxEntries = <<>>
    /\ idxPc = "idle"

CrcIdle ==
    /\ crcPath = <<>>
    /\ crcResults = <<>>
    /\ crcNorm = <<>>

MdbIdle ==
    /\ mdbJson = <<>>
    /\ mdbForce = FALSE
    /\ mdbFile = None
    /\ mdbImp = <<>>
    /\ mdbFwd = <<>>
    /\ mdbReads = <<>>

DumpIdle ==
    /\ entries = <<>>
    /\ packlist = {}
    /\ disk = <<>>
    /\ outfs = <<>>
    /\ outdirs = {}
    /\ force = FALSE
    /\ resolved = None
    /\ dumpPc = "idle"
    /\ dumpRuns = 0
    /\ sortedKeys = <<>>
    /\ dumpIdx = 0
    /\ extracted = 0
    /\ events = <<>>

(***************************************************************************)
(* Specifications.                                                         *)
(***************************************************************************)
MainIdle ==
    /\ mainArgs = <<>>
    /\ mainPc = "idle"

InitCipher == CipherInit /\ SongIdle /\ IdxIdle /\ CrcIdle /\ DumpIdle /\ MdbIdle /\ MainIdle
        /\ RecIdle /\ ExpIdle

SpecCipher == InitCipher /\ [][CipherNext]_vars

InitSong == CipherIdle /\ SongInit /\ IdxIdle /\ CrcIdle /\ DumpIdle /\ MdbIdle /\ MainIdle
        /\ RecIdle /\ ExpIdle

SpecSong == InitSong /\ [][SongNext]_vars

InitIndex == CipherIdle /\ SongIdle /\ IdxInit /\ CrcIdle /\ DumpIdle /\ MdbIdle /\ MainIdle
        /\ RecIdle /\ ExpIdle

SpecIndex == InitIndex /\ [][IdxNext]_vars

InitCrc == CipherIdle /\ SongIdle /\ IdxIdle /\ CrcInit /\ DumpIdle /\ MdbIdle /\ MainIdle
        /\ RecIdle /\ ExpIdle

SpecCrc == InitCrc /\ [][CrcNext]_vars

InitDump == CipherIdle /\ SongIdle /\ IdxIdle /\ CrcIdle /\ DumpInit /\ MdbIdle /\ MainIdle
        /\ RecIdle /\ ExpIdle

SpecDump == InitDump /\ [][DumpNext]_vars

InitMdb == CipherIdle /\ SongIdle /\ IdxIdle /\ CrcIdle /\ DumpIdle /\ MdbInit /\ MainIdle
        /\ RecIdle /\ ExpIdle

SpecMdb == InitMdb /\ [][MdbNext]_vars

InitMain == CipherIdle /\ SongIdle /\ IdxIdle /\ CrcIdle /\ DumpInit /\ MdbIdle /\ MainInit
        /\ RecIdle /\ ExpIdle

SpecMain == InitMain /\ [][MainNext]_vars

InitRecord == CipherIdle /\ SongIdle /\ IdxIdle /\ CrcIdle /\ DumpIdle /\ MdbIdle /\ MainIdle
        /\ RecInit /\ ExpIdle

SpecRecord == InitRecord /\ [][RecNext]_vars

InitExport == CipherIdle /\ SongIdle /\ IdxIdle /\ CrcIdle /\ DumpIdle /\ MdbIdle /\ MainIdle
        /\ RecIdle /\ ExpInit

SpecExport == InitExport /\ [][ExpNext]_vars

(***************************************************************************)
(* Claims.                                                                 *)
(***************************************************************************)
\* C1: for every byte buffer x, encrypt(decrypt(x)) = x and
\* decrypt(encrypt(x)) = x: after the two directions of apply_encryption_key
\* have been applied one after the other, in either order, the buffer is the
\* input again.
C1_CipherRoundTrip ==
    (cipherInput # None /\ Len(cipherOps) = 2 /\ cipherOps[1] # cipherOps[2])
        => cipherBuffer = cipherInput

\* C1 witness: a 100-byte buffer of varied content has been decrypted and then
\* encrypted, and a 1-byte buffer would do as well.
C1_Witness ==
    /\ cipherOps = <<"dec", "enc">>
    /\ Len(cipherInput) = 100
    /\ cipherInput[1] # cipherInput[100]
    /\ cipherBuffer = cipherInput

\* C2: for every song record with fields in range and a title of at most 15
\* characters, to_bytearray succeeds and unpack_from + from_byte_data of its
\* result yields the record again, field for field.
C2_SongRoundTrip ==
    (songPc # "idle" /\ Len(song.title_ascii) <= 15)
        => /\ songPc # "error"
           /\ songPc = "decoded" => songDecoded = song

\* The record of the crafted index that the pass starting at idxPos reads.
IdxRecordAtPos == idxRecords[((idxPos - 16) \div 32) + 1]

\* A pass of parse_pack_data's loop that read and decoded a complete record.
IdxReadsRecord == idxPc = "loop" /\ idxPc' = "loop" /\ idxPos' = idxPos + 32

\* C3: when parse_pack_data reads a record whose hash32 is already a key of
\* the map, the record is discarded and the map left unchanged if the stored
\* entry's hash16 equals the record's, and replaces the stored entry if the
\* hash16 differs; a record with a new hash32 is inserted.  Every other key
\* keeps its entry.
C3_DedupPolicy ==
    [][IdxReadsRecord =>
         LET r == IdxRecordAtPos
             new == PackInfo(r.crc32, r.crc16, r.packid, r.offset, r.filesize, r.md5sum)
         IN  IF r.crc32 \in DOMAIN idxEntries /\ idxEntries[r.crc32].crc16 = r.crc16
             THEN idxEntries' = idxEntries
             ELSE /\ DOMAIN idxEntries' = DOMAIN idxEntries \cup {r.crc32}
                  /\ idxEntries'[r.crc32] = new
                  /\ \A k \in DOMAIN idxEntries \ {r.crc32} : idxEntries'[k] = idxEntries[k]
    ]_vars

\* C3 witness: three records of one hash32 were read; the second, with the
\* first's hash16, was discarded and the third, with another hash16, replaced
\* the first.
C3_Witness ==
    /\ idxPc = "done"
    /\ Len(idxRecords) = 3
    /\ idxRecords[1].crc32 = idxRecords[2].crc32
    /\ idxRecords[1].crc32 = idxRecords[3].crc32
    /\ idxRecords[1].crc16 = idxRecords[2].crc16
    /\ idxRecords[1].crc16 # idxRecords[3].crc16
    /\ DOMAIN idxEntries = {idxRecords[1].crc32}
    /\ idxEntries[idxRecords[1].crc32].packid = 3

\* C4: for an index file whose declared end address exceeds the file's
\* length, whatever partial record (0 to 31 bytes) follows the last complete
\* one, parse_pack_data raises no error and returns the entries of the
\* complete records.
C4_TruncatedIndexAccepted ==
    (idxPc \in {"loop", "done", "error"} /\ idxEnd > Len(idxFile))
        => /\ idxPc # "error"
           /\ idxPc = "done" =>
                DOMAIN idxEntries = {idxRecords[k].crc32 : k \in 1..Len(idxRecords)}

\* The raw slice [offset, offset + filesize) of the container of the entry an
\* extraction was about.
EventRaw(e) ==
    LET entry == entries[e.key]
    IN  PySlice(DumpPackData[entry.packid], entry.offset, entry.offset + entry.filesize)

\* The extraction found its container and read the slice.
EventReadSlice(e) == e.error \notin {"bad_pack_id", "no_packpath"}

\* C5: when the MD5 digest of the raw slice [offset, offset + filesize) of the
\* container equals the entry's expected digest, extraction makes no call of
\* the decrypt primitive and the bytes it writes to the output file are
\* exactly the raw slice (it writes them whenever overwriting is forced).
C5_PlainSliceUntouched ==
    \A n \in 1..Len(events) :
        LET e == events[n]
        IN  (EventReadSlice(e) /\ get_md5sum(EventRaw(e)) = entries[e.key].md5sum)
                => /\ e.decrypts = 0
                   /\ e.data = EventRaw(e)
                   /\ e.wrote => outfs[e.path] = EventRaw(e)
                   /\ force => e.wrote

\* C5 witness: the entry named /data/a, whose digest is that of the raw slice
\* <<10, 20>>, was extracted without a call of decrypt and data/a holds the
\* slice.
C5_Witness ==
    \E n \in 1..Len(events) :
        LET e == events[n]
        IN  /\ e.key = DumpKeyOrder[1]
            /\ get_md5sum(EventRaw(e)) = entries[e.key].md5sum
            /\ e.decrypts = 0
            /\ e.wrote
            /\ e.path = <<100, 97, 116, 97, 47, 97>>
            /\ outfs[e.path] = <<10, 20>>

\* A pass of dump's loop that called extract_data.
DumpExtracts == Len(events') = Len(events) + 1

\* C6: when the raw slice's digest differs from the expected digest,
\* extraction calls the decrypt primitive exactly once on the slice; if the
\* digest recomputed after decryption still differs, an integrity mismatch is
\* reported, extract_data_mem returns None, and neither an output file nor a
\* directory is created or modified.
C6_MismatchDecryptsOnce ==
    [][DumpExtracts =>
         \A e \in {events'[Len(events')]} :
             EventReadSlice(e) =>
                 \A raw \in {EventRaw(e)} :
                     get_md5sum(raw) # entries[e.key].md5sum
                         => /\ e.decrypts = 1
                            /\ get_md5sum(dumper_decrypt(raw, entries[e.key]))
                                      # entries[e.key].md5sum
                                  => /\ e.error = "md5"
                                     /\ e.data = None
                                     /\ ~e.wrote
                                     /\ outfs' = outfs
                                     /\ outdirs' = outdirs
    ]_vars

\* C6 witness: the entry named /data/a, whose digest is neither that of its
\* raw slice nor that of the decrypted slice, was extracted with one call of
\* decrypt; the dump has ended and the output holds neither data/a nor the
\* directory data.
C6_Witness ==
    /\ dumpPc = "done"
    /\ \E n \in 1..Len(events) :
          /\ events[n].key = DumpKeyOrder[1]
          /\ events[n].error = "md5"
          /\ events[n].decrypts = 1
          /\ events[n].data = None
    /\ <<100, 97, 116, 97, 47, 97>> \notin DOMAIN outfs
    /\ <<100, 97, 116, 97>> \notin outdirs

\* The entry's container is in the packlist and on disk and its slice has
\* the expected digest, raw or decrypted.
DumpValid(k) ==
    LET entry == entries[k]
        raw == PySlice(DumpPackData[entry.packid], entry.offset,
                       entry.offset + entry.filesize)
    IN  /\ entry.packid \in packlist
        /\ entry.packid \in DOMAIN disk
        /\ \/ get_md5sum(raw) = entry.md5sum
           \/ get_md5sum(dumper_decrypt(raw, entry)) = entry.md5sum

\* The extractions of the entry under key k in the current call of dump.
DumpAttempts(k) ==
    {n \in 1..Len(events) : events[n].run = dumpRuns /\ events[n].key = k}

\* C7: whatever entries fail in a call of dump (container id not in the
\* packlist, container file missing on disk, integrity mismatch), every named
\* entry is attempted once, and each one whose data is valid has its file in
\* the output when dump returns: written with its data, or left as it was
\* when the destination existed and overwriting is not forced.
C7_BatchContinues ==
    [][(dumpPc = "loop" /\ dumpPc' = "done") =>
         \A k \in DOMAIN entries :
             entries[k].filename # None =>
                 /\ Cardinality(DumpAttempts(k)) = 1
                 /\ DumpValid(k) =>
                       \A n \in DumpAttempts(k) :
                           LET e == events[n]
                           IN  /\ e.error = "ok"
                               /\ e.path = OutputPath(entries[k].filename)
                               /\ e.path \in DOMAIN outfs
                               /\ e.wrote => outfs[e.path] = e.data
                               /\ ~e.wrote => ~force
    ]_vars

\* C7 witness: a dump of three named entries has ended; the second in order
\* names container 3, which is not in the packlist, and failed; the first and
\* the third were written.
C7_Witness ==
    /\ dumpPc = "done"
    /\ Len(events) = 3
    /\ events[1].wrote
    /\ events[2].error = "bad_pack_id"
    /\ events[3].wrote
    /\ events[3].path \in DOMAIN outfs

\* C8: file_exists on a candidate path reports found if and only if
\* filenameCrc32(candidate) is a key of the index and the entry stored under
\* it has hash16 equal to filenameCrc16(candidate); when found it sets that
\* entry's name to the candidate as given and changes nothing else, and when
\* not found no entry is changed.
C8_FileExists ==
    [][resolved' # resolved =>
         LET candidate == resolved'.candidate
             crc32 == DumpCandidateCrc32[candidate]
             found == /\ crc32 \in DOMAIN entries
                      /\ entries[crc32].crc16 = DumpCandidateCrc16[candidate]
         IN  /\ resolved'.exists = found
             /\ IF found
                THEN entries' = [entries EXCEPT ![crc32].filename = candidate]
                ELSE entries' = entries
    ]_vars

\* C8 witness: /data/a was found and named its entry; then data/a, which has
\* the same crc32 and another crc16, was not found and the entries are as
\* they were.
C8_Witness ==
    /\ resolved = [candidate |-> <<100, 97, 116, 97, 47, 97>>, exists |-> FALSE]
    /\ entries[DumpKeyOrder[1]].filename = DumpNames[1]
    /\ entries[DumpKeyOrder[2]].filename = None

\* C9: for any path whose text, after the leading-slash step, begins with
\* /data/aep in any mixture of upper and lower case, filenameCrc32(path) =
\* filenameCrc32(path.lower()).
C9_AepAnyCase ==
    (/\ StartsWith(Lower(WithLeadingSlash(crcPath)), TextDataAep)
     /\ {"path", "lower"} \subseteq DOMAIN crcResults)
        => crcResults["path"] = crcResults["lower"]

\* C10: for every path p that begins with "data/", filenameCrc32(p) =
\* filenameCrc32("/" + p); and normalising an already normalised path changes
\* nothing.
C10_LeadingSlash ==
    /\ (StartsWith(crcPath, TextData) /\ {"path", "slashed"} \subseteq DOMAIN crcResults)
          => crcResults["path"] = crcResults["slashed"]
    /\ Len(crcNorm) >= 2 => crcNorm[2] = crcNorm[1]

\* C10 witness: data/foo.bin and /data/foo.bin were both hashed, to the CRC-32
\* of "/data/foo.bin" (0xAAB5790C), and the path was normalised twice.
C10_Witness ==
    /\ crcPath = TextData \o <<102, 111, 111, 46, 98, 105, 110>>
    /\ {"path", "slashed"} \subseteq DOMAIN crcResults
    /\ crcResults["path"] = <<43701, 30988>>
    /\ Len(crcNorm) = 2
    /\ crcNorm[1] # crcPath

\* The forward path has been run on a file whose decrypted data begins with
\* the eight bytes ident.
FwdLoadedWithId(ident) ==
    /\ mdbFwd.pc # "new"
    /\ PySlice(mdbFwd.decrypted_data, 0, 8) = ident

\* C11: when the first eight bytes of the decrypted data are not the
\* identifier GF/DMmdb, build has ended with an error and the songs and the
\* courses of the MDB object are empty.
C11_BadIdentifierAborts ==
    (mdbFwd.pc # "new" /\ PySlice(mdbFwd.decrypted_data, 0, 8) # IDENTIFIER)
        => /\ mdbFwd.pc = "error"
           /\ mdbFwd.songs = <<>>
           /\ mdbFwd.courses = <<>>

\* C11 witness: a file that holds two courses under the identifier GF/DMmdc
\* was loaded; build raised on the identifier after it had set the header,
\* and decoded no record.
C11_Witness ==
    /\ FwdLoadedWithId(<<71, 70, 47, 68, 77, 109, 100, 99>>)
    /\ mdbFwd.error = "identifier"
    /\ mdbFwd.header.course_number = 2
    /\ Len(mdbFwd.decrypted_data) = HEADER_DATA_SIZE + 2 * COURSE_DATA_SIZE
    /\ mdbFwd.songs = <<>>
    /\ mdbFwd.courses = <<>>

\* The records a list or a dictionary holds.
MdbRecords(f) == {f[k] : k \in DOMAIN f}

\* The forward path has been run on the file the rich import wrote.
FwdLoadedImport ==
    /\ mdbImp.pc = "imported"
    /\ mdbFwd.pc # "new"
    /\ mdbFwd.input = mdbFile

\* C12: for every supplied list of songs and of courses the rich import
\* writes a file, and decrypt + build of that file ends without error with a
\* header whose record_number and course_number are the supplied counts and
\* with songs and courses equal, field for field, to the supplied ones.
C12_RichImportRoundTrip ==
    /\ mdbImp.pc # "error"
    /\ FwdLoadedImport
        => /\ mdbFwd.pc = "built"
           /\ mdbFwd.header.record_number = Len(mdbJson.songs)
           /\ mdbFwd.header.course_number = Len(mdbJson.courses)
           /\ MdbRecords(mdbFwd.songs) = MdbRecords(mdbJson.songs)
           /\ MdbRecords(mdbFwd.courses) = MdbRecords(mdbJson.courses)

\* The rich import has derived its header.
ImpHasHeader == mdbImp.pc # "new"

\* C13: the header the rich import derives for S songs and C courses has the
\* id GF/DMmdb, format 0x66 = 102, checksum 0, header_size 64, record_size
\* 0xC0 - 4 = 188, record_number S, course_size 0x28 - 4 = 36 and
\* course_number C.
C13_RichImportHeader ==
    ImpHasHeader
        => mdbImp.header = [id |-> <<71, 70, 47, 68, 77, 109, 100, 98>>,
                            format |-> 102,
                            checksum |-> 0,
                            header_size |-> 64,
                            record_size |-> 188,
                            record_number |-> Len(mdbJson.songs),
                            course_size |-> 36,
                            course_number |-> Len(mdbJson.courses)]

\* C13 witness: an import of one song and one course derived its header and
\* wrote its file.
C13_Witness ==
    /\ mdbImp.pc = "imported"
    /\ Len(mdbJson.songs) = 1
    /\ Len(mdbJson.courses) = 1
    /\ mdbImp.header.record_number = 1
    /\ mdbImp.header.course_number = 1
    /\ mdbImp.header.record_size = SONG_DATA_SIZE - 4

\* What dump reports when it ends: it returns None and logs the number of
\* passes that called extract_data and the number of the other entries.
DumpLogged ==
    [returned |-> None,
     extracted |-> extracted,
     remaining |-> Cardinality(DOMAIN entries) - extracted]

\* The extractions of the current call of dump.
DumpRunEvents == {n \in 1..Len(events) : events[n].run = dumpRuns}

\* C14: when dump has ended, the counts it reports are those of the attempted,
\* the succeeded and the failed entries: attempted is the number of named
\* entries, the count reported as extracted is the number of entries whose
\* data was extracted, failed is the number reported not found or with an
\* integrity mismatch, and attempted = succeeded + failed.
C14_DumpCounts ==
    dumpPc = "done" =>
        LET attempted == Cardinality({k \in DOMAIN entries : entries[k].filename # None})
            succeeded == Cardinality({n \in DumpRunEvents : events[n].data # None})
            failed == Cardinality({n \in DumpRunEvents :
                                     events[n].error \in {"bad_pack_id", "no_packpath", "md5"}})
        IN  /\ attempted = succeeded + failed
            /\ DumpLogged.extracted = succeeded

\* C15: in a call of extract_data that extracted data, when the destination
\* exists and force is false the files of the output are left as they were;
\* when force is true or the destination does not exist, the destination holds
\* exactly the extracted bytes afterwards and no other file has changed.
C15_WriteSkipRule ==
    [][DumpExtracts =>
         \A e \in {events'[Len(events')]} :
             e.data # None =>
                 IF e.path \in DOMAIN outfs /\ ~force
                 THEN outfs' = outfs
                 ELSE /\ DOMAIN outfs' = DOMAIN outfs \cup {e.path}
                      /\ outfs'[e.path] = e.data
                      /\ \A q \in DOMAIN outfs \ {e.path} : outfs'[q] = outfs[q]
    ]_vars

\* C15 witness: with force false, one extraction found its destination
\* holding other bytes and left them, and another wrote a destination that
\* did not exist.
C15_Witness ==
    /\ ~force
    /\ \E n \in 1..Len(events) :
          /\ events[n].data # None
          /\ ~events[n].wrote
          /\ outfs[events[n].path] = <<7>>
          /\ events[n].data # <<7>>
    /\ \E m \in 1..Len(events) :
          /\ events[m].wrote
          /\ outfs[events[m].path] = events[m].data

\* C16: when pakdump runs with --dryrun, whatever the other options are,
\* dumper.dump() is never called and no file is extracted.
C16_DryRunNeverDumps ==
    mainArgs.dryrun
        => /\ dumpPc = "idle"
           /\ dumpRuns = 0
           /\ events = <<>>

\* A step in which the MDB constructor ran the rich import.
ImportRuns == mdbImp.pc = "new" /\ mdbImp'.pc # "new"

\* C17: a rich import through the MDB constructor overwrites an output file
\* that already exists only when force is set; with force false the existing
\* output file is left unchanged.
C17_ForceGuardsOverwrite ==
    [][ImportRuns => ((mdbFile # None /\ ~mdbForce) => mdbFile' = mdbFile)]_vars

\* A call of file_exists.
FileExistsCalled == resolved' # resolved \/ entries' # entries

\* C18: the filename of an entry is written once: after it has been set, no
\* call of file_exists, with any candidate, changes it; and a call with the
\* candidate that was resolved last leaves the whole index unchanged.
C18_FilenameWrittenOnce ==
    [][FileExistsCalled =>
         /\ \A k \in DOMAIN entries :
               entries[k].filename # None => entries'[k].filename = entries[k].filename
         /\ (resolved.exists /\ resolved'.candidate = resolved.candidate)
               => entries' = entries
    ]_vars

\* The title padded with zeros or cut to width bytes.
TitleToWidth(title, width) ==
    [k \in 1..width |-> IF k <= Len(title) THEN title[k] ELSE 0]

\* The bytes of the 16-byte title field of an encoded song.
SongTitleField(buffer) == SubSeq(buffer, SongLayout.off[28] + 1, SongLayout.off[28] + 16)

\* C19: for a title of any length to_bytearray returns a buffer whose title
\* field is the title at the width of 16 bytes the format declares: a shorter
\* title padded with zeros, a longer one truncated.
C19_TitleWidth ==
    songPc \in {"encoded", "decoded", "error"}
        => /\ songPc # "error"
           /\ SongTitleField(songBytes) = TitleToWidth(song.title_ascii, 16)

\* The little-endian signed integer of the two and of the four bytes at the
\* 0-based offset o.
Int16At(data, o) ==
    data[o + 1] + 256 * (IF data[o + 2] >= 128 THEN data[o + 2] - 256 ELSE data[o + 2])

Int32At(data, o) ==
    data[o + 1] + 256 * data[o + 2] + 65536 * data[o + 3]
        + 16777216 * (IF data[o + 4] >= 128 THEN data[o + 4] - 256 ELSE data[o + 4])

\* The fields of header h that lie at the same offsets in either layout.
HeaderCommonFieldsAt(data, h) ==
    /\ SubSeq(data, 1, 8) = h.id
    /\ Int32At(data, 8) = h.format
    /\ Int32At(data, 12) = h.checksum
    /\ Int16At(data, 16) = h.header_size
    /\ Int16At(data, 18) = h.record_size
    /\ Int16At(data, 20) = h.record_number

\* course_size at offset 22 and course_number at offset 24.
HeaderSizeThenNumberAt(data, h) ==
    /\ HeaderCommonFieldsAt(data, h)
    /\ Int16At(data, 22) = h.course_size
    /\ Int16At(data, 24) = h.course_number

\* course_number at offset 22 and course_size at offset 24.
HeaderNumberThenSizeAt(data, h) ==
    /\ HeaderCommonFieldsAt(data, h)
    /\ Int16At(data, 22) = h.course_number
    /\ Int16At(data, 24) = h.course_size

\* The rich import encoded its header at the start of its data.
HeaderEncoded == mdbImp.pc = "imported"

\* build decoded a header from the start of the decrypted data.
HeaderDecoded == mdbFwd.pc # "new" /\ mdbFwd.error \notin {"struct", "value"}

\* C20 as stated: the encoded header is a 64-byte buffer with the fields in
\* the order id (8 bytes), format, checksum (i32), header_size, record_size,
\* record_number, course_size, course_number (i16), so course_size is at
\* offset 22 and course_number at offset 24, and decoding reads each field
\* from the same offset.
C20_HeaderLayoutAsStated ==
    /\ HeaderEncoded
        => /\ Len(HeaderToByteArray(mdbImp.header)) = 64
           /\ HeaderSizeThenNumberAt(mdbImp.decrypted_data, mdbImp.header)
    /\ HeaderDecoded
        => HeaderSizeThenNumberAt(mdbFwd.decrypted_data, mdbFwd.header)

\* C20, amended: the encoded header is a 64-byte buffer with the fields in
\* the order id (8 bytes), format, checksum (i32), header_size, record_size,
\* record_number, course_number, course_size (i16), so course_number is at
\* offset 22 and course_size at offset 24, and decoding reads each field from
\* the same offset.
C20_HeaderLayout ==
    /\ HeaderEncoded
        => /\ Len(HeaderToByteArray(mdbImp.header)) = 64
           /\ SubSeq(mdbImp.decrypted_data, 1, 64) = HeaderToByteArray(mdbImp.header)
           /\ HeaderNumberThenSizeAt(mdbImp.decrypted_data, mdbImp.header)
    /\ HeaderDecoded
        => HeaderNumberThenSizeAt(mdbFwd.decrypted_data, mdbFwd.header)

\* C20 witness: a header of two courses was encoded by the rich import, and a
\* header with a negative format and a checksum above 65535 was decoded from
\* a file of one course, the count 1 at offset 22 and the size 36 at offset 24.
C20_Witness ==
    /\ HeaderEncoded
    /\ mdbImp.header.course_number = 2
    /\ Int16At(mdbImp.decrypted_data, 22) = 2
    /\ Int16At(mdbImp.decrypted_data, 24) = 36
    /\ mdbFwd.pc = "built"
    /\ mdbFwd.header.format = -5
    /\ mdbFwd.header.checksum = 70000
    /\ Int16At(mdbFwd.decrypted_data, 22) = 1
    /\ Int16At(mdbFwd.decrypted_data, 24) = 36
    /\ mdbFwd.header.course_number = 1
    /\ mdbFwd.header.course_size = 36

\* The extraction at position n of the events lies at or before the one at m
\* in the order of (packid, offset).
EventNotAfter(n, m) ==
    LET a == entries[events[n].key]
        b == entries[events[m].key]
    IN  a.packid < b.packid \/ (a.packid = b.packid /\ a.offset <= b.offset)

\* C21: a call of dump attempts only entries whose filename is set, none of
\* them twice, in non-decreasing order of (packid, offset); and when it has
\* ended it has attempted every entry whose filename is set.
C21_DumpOrder ==
    /\ \A n \in DumpRunEvents : entries[events[n].key].filename # None
    /\ \A n \in DumpRunEvents : \A m \in DumpRunEvents :
          n < m => events[n].key # events[m].key /\ EventNotAfter(n, m)
    /\ dumpPc = "done" =>
          {events[n].key : n \in DumpRunEvents}
              = {k \in DOMAIN entries : entries[k].filename # None}

\* C21 witness: a dump has ended that attempted the second entry of the index
\* before the first (same container, lower offset) and passed over the third,
\* which has no filename.
C21_Witness ==
    /\ dumpPc = "done"
    /\ Len(events) = 2
    /\ events[1].key = DumpKeyOrder[2]
    /\ events[2].key = DumpKeyOrder[1]
    /\ entries[DumpKeyOrder[1]].offset > entries[DumpKeyOrder[2]].offset
    /\ entries[DumpKeyOrder[3]].filename = None

\* mask(idx) & 0xFF, with mask(idx) = idx + 16*(idx mod 8)
\* + (K[idx mod 9] XOR (9*(idx div 9) - idx + 127)) - 9*(idx div 9).
MaskedMask(idx) ==
    (idx + 16 * (idx % 8)
         + PyXor(ENCRYPTION_KEY[(idx % 9) + 1], 9 * (idx \div 9) - idx + 127)
         - 9 * (idx \div 9)) % 256

\* A call of apply_encryption_key on a buffer, in the given direction.
CipherCalled(op) ==
    /\ Len(cipherOps') = Len(cipherOps) + 1
    /\ cipherOps'[Len(cipherOps')] = op
    /\ cipherBuffer # None

\* C22: apply_encryption_key on a buffer of length n returns a buffer of
\* length n with output[idx] = input[n-1-idx] XOR (mask(idx) & 0xFF) for
\* decrypt and output[n-1-idx] = input[idx] XOR (mask(idx) & 0xFF) for
\* encrypt, for every idx in 0..n-1, and leaves the input as it was.
C22_CipherBytes ==
    [][\A n \in {Len(cipherBuffer)} :
         /\ CipherCalled("dec") =>
               /\ cipherBuffer' # Raised
               /\ Len(cipherBuffer') = n
               /\ \A idx \in 0..(n - 1) :
                     cipherBuffer'[idx + 1] = PyXor(cipherBuffer[n - idx], MaskedMask(idx))
               /\ cipherInput' = cipherInput
         /\ CipherCalled("enc") =>
               /\ cipherBuffer' # Raised
               /\ Len(cipherBuffer') = n
               /\ \A idx \in 0..(n - 1) :
                     cipherBuffer'[n - idx] = PyXor(cipherBuffer[idx + 1], MaskedMask(idx))
               /\ cipherInput' = cipherInput
    ]_vars

\* C22 witness: a 100-byte buffer was encrypted: the last byte of the result
\* is the first byte of the input XOR mask(0) = 77, the first byte of the
\* result is the last byte of the input XOR mask(99).
C22_Witness ==
    /\ cipherOps = <<"enc">>
    /\ Len(cipherInput) = 100
    /\ Len(cipherBuffer) = 100
    /\ MaskedMask(0) = 77
    /\ cipherBuffer[100] = PyXor(cipherInput[1], 77)
    /\ cipherBuffer[1] = PyXor(cipherInput[100], MaskedMask(99))
    /\ cipherBuffer # cipherInput

\* The period the mask is stated to have: the step index enters it through
\* idx % 8 and idx % 9 only.
MaskPeriod == 8 * 9

\* The step indices the calls of one behaviour reach, and the same indices one
\* to three periods later.
MaskSteps == UNION {{idx + p * MaskPeriod : p \in 0..3} : idx \in 0..(Len(cipherInput) - 1)}

\* C27: for every step index the value XORed into the byte lies in 0..255, so
\* it equals its reduction to a byte and depends only on idx mod 72, and no
\* call of the cipher fails to store a byte.
C27_MaskIsByte ==
    /\ cipherBuffer # Raised
    /\ cipherInput # None =>
          \A idx \in MaskSteps :
              /\ CipherMask(idx) \in 0..255
              /\ CipherMask(idx) = CipherMask(idx) % 256
              /\ CipherMask(idx) = CipherMask(idx % MaskPeriod)

\* A 100-byte buffer has been through the cipher, so the steps 0..99 ran and
\* stored; step 7 has the largest mask, 205, and step 8 the smallest, 62, and
\* step 99 has the mask of step 27.
C27_Witness ==
    /\ cipherInput # None
    /\ Len(cipherInput) = 100
    /\ Len(cipherOps) >= 1
    /\ cipherBuffer # Raised
    /\ Len(cipherBuffer) = 100
    /\ CipherMask(7) = 205
    /\ CipherMask(8) = 62
    /\ CipherMask(99) = 125
    /\ CipherMask(27) = 125

\* The number of passes a loop "while count < n" makes.
LoopPasses(n) == IF n > 0 THEN n ELSE 0

\* The reads of a build are at the stated offsets, in order: read i of the
\* song loop at 64 + i*(recordSize+4), read j of the course loop at
\* 64 + recordCount*(recordSize+4) + j*(courseSize+4).
ReadsAtStatedOffsets(header, reads) ==
    /\ \A i \in 0..(Len(reads.songs) - 1) :
          reads.songs[i + 1] = 64 + i * (header.record_size + 4)
    /\ \A j \in 0..(Len(reads.courses) - 1) :
          reads.courses[j + 1] =
              64 + header.record_number * (header.record_size + 4)
                 + j * (header.course_size + 4)

RecIsHeaderInRange(h) ==
    /\ Len(h.id) = 8
    /\ \A k \in 1..8 : h.id[k] \in 0..127
    /\ \A v \in {h.format, h.checksum} : v \in -2147483647 - 1 .. 2147483647
    /\ \A v \in {h.header_size, h.record_size, h.record_number, h.course_size,
                 h.course_number} : v \in -32768..32767

RecIsCourseInRange(c) ==
    /\ c.course_id \in -2147483647 - 1 .. 2147483647
    /\ c.course_flag >= 0
    /\ Len(c.music_ids) = 4
    /\ \A k \in 1..4 : c.music_ids[k] \in -2147483647 - 1 .. 2147483647
    /\ \A k \in 1..16 : c.difficulty[k] \in 0..255

RecInRange ==
    IF recIn.kind = "header" THEN RecIsHeaderInRange(recIn.value)
    ELSE RecIsCourseInRange(recIn.value)

\* C24: a header or a course within the ranges of its fields is encoded
\* without an error, and decoding the encoding gives back every field, the
\* course size and the course count of a header each in its own field.
C24_RecordRoundTrip ==
    /\ (recPc # "idle" /\ RecInRange) => recPc # "error"
    /\ (recPc = "decoded" /\ RecInRange) => recDecoded = recIn.value

\* A header whose course count (32767) is not its course size (-1) and a
\* course of extreme values have each gone through the round trip.
C24_Witness ==
    /\ recPc = "decoded"
    /\ recIn.kind = "header"
    /\ recIn.value.course_number = 32767
    /\ recIn.value.course_size = -1
    /\ recIn.value.format = -2147483647 - 1
    /\ recDecoded.course_number = 32767
    /\ recDecoded.course_size = -1

\* A step that is a call of export of the given type which did not raise.
ExpCalled(export_type) ==
    /\ Len(expLog') = Len(expLog) + 1
    /\ expLog'[Len(expLog')].type = export_type
    /\ expLog'[Len(expLog')].outcome # "raised"

\* C25: a call of export writes mdb.<format> when the file does not exist
\* or force is set, and only then; when the file exists and force is not
\* set the file keeps its content and an error is logged.  No other file of
\* the output directory changes.
C25_ExportForce ==
    [][\A t \in {"JSON", "XML"} : \A name \in {ExpLower(t)} :
          ExpCalled(t) =>
             /\ (expFs[name] = None \/ expMdb.force)
                   => /\ expFs'[name] = ExportDocument(expMdb, t, expMdb.pretty_print)
                      /\ expLog'[Len(expLog')].outcome = "written"
             /\ (expFs[name] # None /\ ~expMdb.force)
                   => /\ expFs'[name] = expFs[name]
                      /\ expLog'[Len(expLog')].outcome = "error"
             /\ \A other \in DOMAIN expFs \ {name} : expFs'[other] = expFs[other]]_vars

\* export as JSON was called without force on a directory that held mdb.json:
\* the file still has its old content and the error was logged; export as
\* XML then wrote mdb.xml, which did not exist.
C25_Witness ==
    /\ ~expMdb.force
    /\ Len(expLog) = 2
    /\ expLog[1] = [type |-> "JSON", outcome |-> "error"]
    /\ expLog[2] = [type |-> "XML", outcome |-> "written"]
    /\ expFs["json"] = ExpOldContent
    /\ expFs["xml"] = ExportDocument(expMdb, "XML", expMdb.pretty_print)
    /\ DOMAIN expMdb.courses # {}

\* The number of records of the crafted index that the loop has read and
\* decoded so far.
IdxRecordsRead ==
    IF idxPc = "open" THEN 0
    ELSE MinOf({(idxPos - 16) \div 32, Len(idxRecords)})

\* Among the records read, the places of those with hash32 h.
IdxPlacesOf(h) == {k \in 1..IdxRecordsRead : idxRecords[k].crc32 = h}

\* The first record of the last maximal run of equal-hash16 records among
\* the records read with hash32 h, as its place.
IdxLastRunStart(h) ==
    LET last == MaxOf(IdxPlacesOf(h))
    IN  MinOf({k \in IdxPlacesOf(h) :
                 \A j \in IdxPlacesOf(h) :
                    j >= k => idxRecords[j].crc16 = idxRecords[last].crc16})

\* C26: whatever records parse_pack_data has read, the map holds one entry
\* for each hash32 read and no other, and the entry under hash32 h is the
\* first record of the last maximal run of equal-hash16 records among the
\* records read with hash32 h.
C26_LastRunFirst ==
    /\ DOMAIN idxEntries = {idxRecords[k].crc32 : k \in 1..IdxRecordsRead}
    /\ \A h \in DOMAIN idxEntries :
          \E r \in {idxRecords[IdxLastRunStart(h)]} :
             idxEntries[h] =
                 PackInfo(r.crc32, r.crc16, r.packid, r.offset, r.filesize, r.md5sum)

\* Records A(h, a), B(h, b), C(h, a) were read in that order: the entry
\* stored under h is C, the third.
C26_Witness ==
    /\ idxPc = "done"
    /\ Len(idxRecords) = 3
    /\ IdxRecordsRead = 3
    /\ idxRecords[1].crc32 = idxRecords[2].crc32
    /\ idxRecords[1].crc32 = idxRecords[3].crc32
    /\ idxRecords[1].crc16 # idxRecords[2].crc16
    /\ idxRecords[1].crc16 = idxRecords[3].crc16
    /\ DOMAIN idxEntries = {idxRecords[1].crc32}
    /\ idxEntries[idxRecords[1].crc32].packid = 3
    /\ idxEntries[idxRecords[1].crc32].offset = idxRecords[3].offset

\* C29: every entry of the map was decoded from a record that ends at or
\* below the declared end address (record k, which the crafted index marks
\* with container id k, occupies the bytes 16 + 32*(k-1) up to 16 + 32*k).
C29_NoEntryBeyondEnd ==
    idxPc # "open" =>
        \A h \in DOMAIN idxEntries : 16 + 32 * idxEntries[h].packid <= idxEnd

\* calculate_filename_crc32 and calculate_filename_crc16 of a stored name.
NameCrc32(name) ==
    IF name \in DOMAIN DumpCandidateCrc32 THEN DumpCandidateCrc32[name]
    ELSE calculate_filename_crc32(name)

NameCrc16(name) ==
    IF name \in DOMAIN DumpCandidateCrc16 THEN DumpCandidateCrc16[name]
    ELSE calculate_filename_crc16(name)

\* A step in which file_exists may have been called: dump has not started.
BeforeDump == dumpPc = "idle" /\ dumpPc' = "idle"

\* C28: no entry has a name when the index has just been parsed; at any
\* time an entry that has a name is stored under the crc32 of that name,
\* which is its hash32, and its hash16 is the crc16 of that name; and a call
\* of file_exists keeps the keys of the index and every field of every entry
\* but the name.
C28_NamesMatchHashes ==
    /\ \A k \in DOMAIN entries : entries[k].filename = None
    /\ [](\A k \in DOMAIN entries :
             entries[k].filename # None =>
                 /\ NameCrc32(entries[k].filename) = k
                 /\ entries[k].crc32 = k
                 /\ NameCrc16(entries[k].filename) = entries[k].crc16)
    /\ [][BeforeDump =>
             /\ DOMAIN entries' = DOMAIN entries
             /\ \A k \in DOMAIN entries :
                   entries'[k] = [entries[k] EXCEPT !.filename = entries'[k].filename]]_vars

\* Two entries have been named by file_exists, one of them by a spelling
\* that is not its lower-case form, and the third has no name.
C28_Witness ==
    /\ dumpPc = "idle"
    /\ entries[DumpKeyOrder[1]].filename = DumpNames[1]
    /\ entries[DumpKeyOrder[2]].filename = None
    /\ entries[DumpKeyOrder[3]].filename = DumpNames[3]
    /\ DumpNames[3] # Lower(DumpNames[3])
    /\ resolved.candidate = DumpNames[3]
    /\ resolved.exists

\* The id of the record read at byte offset o of the data: the first field of
\* a song and of a course, a little-endian int32.
RecordIdAt(o) == Int32At(mdbFwd.decrypted_data, o)

\* The last of the reads whose record has the id.
LastReadOf(reads, id) == reads[MaxOf({j \in 1..Len(reads) : RecordIdAt(reads[j]) = id})]

\* C30: after a build that completed, the songs are keyed by the music ids
\* and the courses by the course ids of the records read, so there are at
\* most recordCount songs and courseCount courses, as many exactly when the
\* ids read are distinct, and the record under an id is the last one read
\* with that id.
C30_MapsKeyedById ==
    mdbFwd.pc = "built" =>
        /\ DOMAIN mdbFwd.songs = {RecordIdAt(mdbReads.songs[j]) : j \in 1..Len(mdbReads.songs)}
        /\ DOMAIN mdbFwd.courses
              = {RecordIdAt(mdbReads.courses[j]) : j \in 1..Len(mdbReads.courses)}
        /\ Cardinality(DOMAIN mdbFwd.songs) <= LoopPasses(mdbFwd.header.record_number)
        /\ Cardinality(DOMAIN mdbFwd.courses) <= LoopPasses(mdbFwd.header.course_number)
        /\ (Cardinality(DOMAIN mdbFwd.songs) = LoopPasses(mdbFwd.header.record_number))
              <=> (\A i, j \in 1..Len(mdbReads.songs) :
                      i # j => RecordIdAt(mdbReads.songs[i]) # RecordIdAt(mdbReads.songs[j]))
        /\ (Cardinality(DOMAIN mdbFwd.courses) = LoopPasses(mdbFwd.header.course_number))
              <=> (\A i, j \in 1..Len(mdbReads.courses) :
                      i # j => RecordIdAt(mdbReads.courses[i]) # RecordIdAt(mdbReads.courses[j]))
        /\ \A id \in DOMAIN mdbFwd.songs :
              /\ mdbFwd.songs[id].music_id = id
              /\ mdbFwd.songs[id] =
                    SongFromByteData(struct_unpack_from(SongLayout,
                        PySlice(mdbFwd.decrypted_data, LastReadOf(mdbReads.songs, id),
                                LastReadOf(mdbReads.songs, id) + SONG_DATA_SIZE)))
        /\ \A id \in DOMAIN mdbFwd.courses :
              /\ mdbFwd.courses[id].course_id = id
              /\ mdbFwd.courses[id] =
                    CourseFromByteData(struct_unpack_from(CourseLayout,
                        PySlice(mdbFwd.decrypted_data, LastReadOf(mdbReads.courses, id),
                                LastReadOf(mdbReads.courses, id) + COURSE_DATA_SIZE)))

\* A file of two courses with id 9, the first with flag 5 and the second
\* with flag 6, was built: the one course of the map is the second.
C30_Witness ==
    /\ mdbFwd.pc = "built"
    /\ mdbFwd.header.course_number = 2
    /\ Len(mdbReads.courses) = 2
    /\ RecordIdAt(mdbReads.courses[1]) = 9
    /\ RecordIdAt(mdbReads.courses[2]) = 9
    /\ DOMAIN mdbFwd.courses = {9}
    /\ mdbFwd.courses[9].course_flag = 6

=============================================================================
